---- MODULE Spec2Model ----
(***************************************************************************)
(* Rate-limit core of the disgord REST client: package httd/ratelimit      *)
(* (bucket, Manager) as driven by httd.Client.Do.                          *)
(*                                                                         *)
(* Representation of Go values:                                            *)
(*   time.Time / time.Duration  a record [ms, ns] with 0 <= ns < 10^6 :    *)
(*       the instant (duration) of ms milliseconds plus ns nanoseconds,    *)
(*       instants counted from the Unix epoch.  All arithmetic is exact.   *)
(*   uint (64 bit)              the integer r with the same bit pattern    *)
(*       read as int64: r >= 0 is the value r, r < 0 is the value          *)
(*       2^64 + r.  Increment and decrement are r+1 and r-1 (0-1 = -1 is   *)
(*       2^64-1), unsigned comparison is ULess.  Conversions uint<->int64  *)
(*       keep r.                                                           *)
(*   The bucket fields invalid, lastUpdated and shortestTimeout are never  *)
(*   read by any operation and are left out.                               *)
(***************************************************************************)
EXTENDS Integers, Sequences, FiniteSets, TLC

VARIABLES
    now,        \* the wall clock time.Now() returns
    timeout,    \* Client.httpClient.Timeout, fixed by the configuration
    global,     \* Manager.global : the one global bucket
    heap,       \* the local bucket objects, in order of creation
    group,      \* routing of the bucket groups: triple -> index in heap, 0 = none
    flights,    \* calls of Do between their Acquire and the outcome of the round trip
    started,    \* number of Do calls made so far
    last,       \* the last bucket operation with its arguments and results
    granted,    \* per bucket (0 = global): immediate grants in the current window
    globalSeen, \* an UpdateBucket has processed X-RateLimit-Global = true
    byKey,      \* the groups' second routing: (slot, serverKey) -> index in heap, 0 = none
    learned,    \* per bucket: the serverKey the response of the Do that made it gave it
    builder,    \* the request builder an endpoint binding returned to its caller
    norm,       \* the last call of CorrectDiscordHeader on its own: arguments and result
    thr,        \* per goroutine running Client.Do: its position and local variables
    mu,         \* per bucket (0 = global): the goroutine that holds its mutex, 0 = none
    reqHeader,  \* the Content-Type entry of the header map Client.reqHeader
    gm,         \* the call of Client.GetMessages under way: its filter, position and result
    cp,         \* per goroutine running Message.CopyOverTo: its position, source and target
    msgs        \* the Message objects: content and the state of the embedded RWMutex

\* the client and its rate-limit manager
clientVars == <<now, timeout, global, heap, group, flights, started, last, granted,
                globalSeen, byKey, learned>>
builderVars == <<builder>>
normVars == <<norm>>
threadVars == <<thr, mu, reqHeader>>
\* what a call of Client.Do on its own leaves alone
messageVars == <<gm, cp, msgs>>
layerVars == <<builderVars, normVars, threadVars, messageVars>>

vars == <<clientVars, layerVars>>

----------------------------------------------------------------------------
(* Bounds of the model *)

\* total number of Do calls explored
MaxRequests == 3
\* Do calls that may be in flight at once
MaxFlights == 2
\* goroutines that run Client.Do at the same time
MaxThreads == 2

----------------------------------------------------------------------------
(* time.Time and time.Duration *)

\* time.Millisecond, in nanoseconds
Millisecond == 1000000
\* time.Hour, in milliseconds
HourMs == 3600000

Norm(ms, ns) == [ms |-> ms + (ns \div Millisecond), ns |-> ns % Millisecond]
Ms(n) == [ms |-> n, ns |-> 0]
TAdd(t, d) == Norm(t.ms + d.ms, t.ns + d.ns)
TSub(a, b) == Norm(a.ms - b.ms, a.ns - b.ns)
TBefore(a, b) == a.ms < b.ms \/ (a.ms = b.ms /\ a.ns < b.ns)
TAfter(a, b) == TBefore(b, a)
\* d.Nanoseconds() / int64(time.Millisecond): int64 division truncates towards 0
DurToMs(d) == IF d.ms < 0 /\ d.ns > 0 THEN d.ms + 1 ELSE d.ms
\* time.Unix(0, epoch + diff.Nanoseconds()): epoch counts as NANOSECONDS
UnixNano(epoch, diff) == Norm(diff.ms, diff.ns + epoch)

\* a < b on uint
ULess(a, b) == IF (a < 0) = (b < 0) THEN a < b ELSE b < 0

----------------------------------------------------------------------------
(* bucket *)

newBucket(t, keys) ==
    [key |-> "", localKeys |-> keys, limit |-> 1, remaining |-> 1,
     reset |-> TAdd(t, Ms(HourMs)), longestTimeout |-> 0, active |-> FALSE]

\* bucket.update: the refresh of an expired window
update(b, t) ==
    IF b.longestTimeout = 0 THEN b
    ELSE IF ~TAfter(b.reset, t)
         THEN [b EXCEPT !.remaining = 1,
                        !.reset = TAdd(t, Ms(b.longestTimeout))]
         ELSE b

\* limited that does not look at the reset
limited_Sticky(b, t) == b.remaining = 0

\* bucket.limited
limited(b, t) == TAfter(b.reset, t) /\ b.remaining = 0

\* the delay of the within branch
withinDelay(b, t, within) == TSub(TAdd(t, within), b.reset)

\* acquire without the test that the window ends within the caller's patience
acquire_NoDeadline(b, t, within) ==
    LET u == update(b, t) IN
    IF limited(u, t)
    THEN IF TAfter(within, Ms(0))
         THEN [b |-> [u EXCEPT !.remaining = @ - 1],
               delay |-> withinDelay(u, t, within), rateLimited |-> TRUE, err |-> FALSE]
         ELSE [b |-> u, delay |-> Ms(0), rateLimited |-> TRUE, err |-> TRUE]
    ELSE [b |-> [u EXCEPT !.remaining = @ - 1],
          delay |-> Ms(0), rateLimited |-> FALSE, err |-> FALSE]

\* acquire whose within branch returns the delay without booking a permit
acquire_NoReserve(b, t, within) ==
    LET u == update(b, t) IN
    IF limited(u, t)
    THEN IF TAfter(within, Ms(0)) /\ TBefore(u.reset, TAdd(t, within))
         THEN [b |-> u,
               delay |-> withinDelay(u, t, within), rateLimited |-> TRUE, err |-> FALSE]
         ELSE [b |-> u, delay |-> Ms(0), rateLimited |-> TRUE, err |-> TRUE]
    ELSE [b |-> [u EXCEPT !.remaining = @ - 1],
          delay |-> Ms(0), rateLimited |-> FALSE, err |-> FALSE]

\* bucket.acquire: the bucket after the call and the three results
acquire(b, t, within) ==
    LET u == update(b, t) IN
    IF limited(u, t)
    THEN IF TAfter(within, Ms(0)) /\ TBefore(u.reset, TAdd(t, within))
         THEN [b |-> [u EXCEPT !.remaining = @ - 1],
               delay |-> withinDelay(u, t, within), rateLimited |-> TRUE, err |-> FALSE]
         ELSE [b |-> u, delay |-> Ms(0), rateLimited |-> TRUE, err |-> TRUE]
    ELSE [b |-> [u EXCEPT !.remaining = @ - 1],
          delay |-> Ms(0), rateLimited |-> FALSE, err |-> FALSE]

\* bucket.regretAcquire
regretAcquire(b) == [b EXCEPT !.remaining = @ + 1]

\* Acquire that forgets to return after the global bucket decided
Acquire_FallThrough(b, g, t, within) ==
    LET rg == IF g.active THEN acquire(g, t, within).b ELSE g
        r == acquire(b, t, within)
    IN [b |-> r.b, g |-> rg, delay |-> r.delay, rateLimited |-> r.rateLimited,
        err |-> r.err, id |-> [global |-> g.active, reset |-> r.b.reset]]

\* bucket.Acquire on local bucket b with global bucket g: the global bucket decides
\* when it is active, else the local one
Acquire(b, g, t, within) ==
    IF g.active
    THEN LET r == acquire(g, t, within) IN
         [b |-> b, g |-> r.b, delay |-> r.delay, rateLimited |-> r.rateLimited,
          err |-> r.err, id |-> [global |-> TRUE, reset |-> r.b.reset]]
    ELSE LET r == acquire(b, t, within) IN
         [b |-> r.b, g |-> g, delay |-> r.delay, rateLimited |-> r.rateLimited,
          err |-> r.err, id |-> [global |-> FALSE, reset |-> r.b.reset]]

\* RegretAcquire that gives nothing back
RegretAcquire_Noop(b, g, id) == [b |-> b, g |-> g]

\* RegretAcquire without the comparison of the bucketID's reset
RegretAcquire_Always(b, g, id) ==
    IF id.global THEN [b |-> b, g |-> regretAcquire(g)]
    ELSE [b |-> regretAcquire(b), g |-> g]

\* bucket.RegretAcquire(id) on local bucket b with global bucket g
RegretAcquire(b, g, id) ==
    IF id.global
    THEN [b |-> b, g |-> IF id.reset = g.reset THEN regretAcquire(g) ELSE g]
    ELSE [b |-> IF id.reset = b.reset THEN regretAcquire(b) ELSE b, g |-> g]

----------------------------------------------------------------------------
(* Header texts and CorrectDiscordHeader *)

\* header.Get(..) = "" : the field is absent
Absent == -1
\* a field whose text strconv.ParseInt rejects
Bad == -2

\* The text of a numeric header field: absent, not a number, or the decimal
\* number int.frac (frac in thousandths) written with or without a decimal point.
NoText == [kind |-> "absent", int |-> 0, frac |-> 0, dot |-> FALSE]
BadText == [kind |-> "bad", int |-> 0, frac |-> 0, dot |-> FALSE]
Num(i, f, d) == [kind |-> "num", int |-> i, frac |-> f, dot |-> d]
\* the text of the seconds s milliseconds make, as the server writes them
Seconds(ms) == Num(ms \div 1000, ms % 1000, TRUE)

\* strconv.FormatInt(k, 10)
FormatInt(k) == Num(k, 0, FALSE)
\* strconv.ParseFloat and strconv.ParseInt fail on these texts
ParseFloatFails(x) == x.kind = "bad"
ParseIntFails(x) == x.kind = "bad" \/ x.dot
\* int64(ParseFloat(x) * 1000)
Times1000(x) == x.int * 1000 + x.frac
\* what header.Get and strconv.ParseInt give UpdateBucket for a field
ParseInt(x) == IF x.kind = "absent" THEN Absent
               ELSE IF ParseIntFails(x) THEN Bad ELSE x.int

\* the body of a response that is no JSON object
NoBody == [kind |-> "empty", global |-> FALSE, retry_after |-> 0, code |-> 0, message |-> ""]
\* http.StatusTooManyRequests
StatusTooManyRequests == 429

\* a normalizer that copies Retry-After first, so that the 429 body's retry_after
\* overwrites it
CorrectDiscordHeader_BodyWins(statusCode, header, body, t) ==
    LET timestamp == IF header.dateOk THEN header.date ELSE t
        tooMany == statusCode = StatusTooManyRequests
        err1 == header.resetAfter.kind # "absent" /\ ParseFloatFails(header.resetAfter)
        after1 == IF header.resetAfter.kind = "num"
                  THEN FormatInt(Times1000(header.resetAfter)) ELSE header.resetAfter
        err2 == tooMany /\ body.kind # "json"
        after2 == IF header.retryAfter.kind # "absent" THEN header.retryAfter ELSE after1
        after3 == IF tooMany /\ body.retry_after > 0
                  THEN FormatInt(body.retry_after) ELSE after2
        err4 == header.reset.kind # "absent" /\ ParseFloatFails(header.reset)
        reset4 == IF header.reset.kind = "num"
                  THEN FormatInt(Times1000(header.reset)) ELSE header.reset
        synth == reset4.kind = "absent" /\ after3.kind # "absent"
        err5 == synth /\ ParseIntFails(after3)
        reset5 == IF synth /\ ~err5
                  THEN FormatInt(TAdd(timestamp, Ms(after3.int)).ms) ELSE reset4
    IN IF err1 \/ err2 \/ err4 \/ err5
       THEN [err |-> TRUE, h |-> header]
       ELSE [err |-> FALSE,
             h |-> [header EXCEPT !.resetAfter = after3, !.reset = reset5,
                                  !.global = header.global \/ (tooMany /\ body.global)]]

\* CorrectDiscordHeader(statusCode, header, body) called at local time t: the error
\* flag and the rewritten header
CorrectDiscordHeader(statusCode, header, body, t) ==
    LET timestamp == IF header.dateOk THEN header.date ELSE t
        tooMany == statusCode = StatusTooManyRequests
        err1 == header.resetAfter.kind # "absent" /\ ParseFloatFails(header.resetAfter)
        after1 == IF header.resetAfter.kind = "num"
                  THEN FormatInt(Times1000(header.resetAfter)) ELSE header.resetAfter
        err2 == tooMany /\ body.kind # "json"
        after2 == IF tooMany /\ body.retry_after > 0
                  THEN FormatInt(body.retry_after) ELSE after1
        after3 == IF header.retryAfter.kind # "absent" THEN header.retryAfter ELSE after2
        err4 == header.reset.kind # "absent" /\ ParseFloatFails(header.reset)
        reset4 == IF header.reset.kind = "num"
                  THEN FormatInt(Times1000(header.reset)) ELSE header.reset
        synth == reset4.kind = "absent" /\ after3.kind # "absent"
        err5 == synth /\ ParseIntFails(after3)
        reset5 == IF synth /\ ~err5
                  THEN FormatInt(TAdd(timestamp, Ms(after3.int)).ms) ELSE reset4
    IN IF err1 \/ err2 \/ err4 \/ err5
       THEN [err |-> TRUE, h |-> header]
       ELSE [err |-> FALSE,
             h |-> [header EXCEPT !.resetAfter = after3, !.reset = reset5,
                                  !.global = header.global \/ (tooMany /\ body.global)]]

\* the fields of a corrected header as UpdateBucket reads them
Parsed(h) ==
    [date |-> h.date, dateOk |-> h.dateOk, reset |-> ParseInt(h.reset),
     remaining |-> h.remaining, limit |-> h.limit, bucket |-> h.bucket,
     global |-> h.global]

\* localTime.Sub(discordTime); a missing or unparsable date is replaced by time.Now()
headerDiff(h, t) == IF h.dateOk THEN TSub(t, h.date) ELSE Ms(0)

\* newReset that ignores the absence of the header and the parse error (epoch 0)
newReset_Unguarded(bu, h, t) ==
    UnixNano(IF h.reset < 0 THEN 0 ELSE h.reset, headerDiff(h, t))

\* the bucket's reset after the X-RateLimit-Reset step
newReset(bu, h, t) ==
    IF h.reset = Absent \/ h.reset = Bad THEN bu.reset
    ELSE UnixNano(h.reset, headerDiff(h, t))

\* the bucket's longestTimeout after the X-RateLimit-Reset step; old is b.reset
newLongest(bu, old, h, t) ==
    IF h.reset = Absent \/ h.reset = Bad THEN bu.longestTimeout
    ELSE LET nr == newReset(bu, h, t)
             oldNewDiffMs == DurToMs(TSub(nr, old))
         IN IF nr # old /\ ULess(bu.longestTimeout, oldNewDiffMs)
            THEN oldNewDiffMs ELSE bu.longestTimeout

\* the locked part of Manager.UpdateBucket on the target bu; every parse error returns at once
updateFields(bu, old, h, t) ==
    IF h.reset = Bad THEN bu
    ELSE LET b1 == [bu EXCEPT !.reset = newReset(bu, h, t),
                              !.longestTimeout = newLongest(bu, old, h, t)]
         IN IF h.remaining = Bad THEN b1
            ELSE LET b2 == IF h.remaining = Absent THEN b1
                           ELSE [b1 EXCEPT !.remaining = h.remaining]
                 IN IF h.limit = Bad THEN b2
                    ELSE LET b3 == IF h.limit = Absent THEN b2
                                   ELSE [b2 EXCEPT !.limit = h.limit]
                         IN IF h.bucket = "" THEN b3 ELSE [b3 EXCEPT !.key = h.bucket]

\* UpdateBucket that writes the looked-up bucket whatever X-RateLimit-Global says
updateBucket_Local(b, g, h, t) == [b |-> updateFields(b, b.reset, h, t), g |-> g]

\* which bucket UpdateBucket writes: the global one on X-RateLimit-Global = "true"
updateBucket(b, g, h, t) ==
    IF h.global THEN [b |-> b, g |-> updateFields(g, b.reset, h, t)]
    ELSE [b |-> updateFields(b, b.reset, h, t), g |-> g]

----------------------------------------------------------------------------
(* The inputs explored *)

\* the routing triples (class, majorID, localKey) the callers use
Triples ==
    { [class |-> "channels", major |-> 42, key |-> "messages"] }

\* the routes of scenario S5: a second local key under the same channel
Routes ==
    Triples \cup { [class |-> "channels", major |-> 42, key |-> "messages-del"] }

\* the (class, majorID) slots of the routes and the bucket names the server uses
Slots == { <<tr.class, tr.major>> : tr \in Routes }
ServerKeys == { "xyz" }
\* no Consolidate call yet
NotYet == "-"

\* the clock starts at Start; a bucket made at Start has reset = Start + 1h
Start == Ms(1000)
Times == { Ms(1000), Ms(1000 + HourMs - 400), Ms(1000 + HourMs - 150),
           Ms(1000 + HourMs) }

\* configured HTTP client timeouts explored
Timeouts == { Ms(0), Ms(200), Ms(500) }

\* What the server answers: after = the window's remaining milliseconds on the
\* server's clock, drift = local clock minus server clock in milliseconds.
Answers ==
    { [after |-> Absent, remaining |-> Absent, limit |-> Absent, bucket |-> "",
       global |-> FALSE, drift |-> 0, dateOk |-> TRUE],
      [after |-> 1000, remaining |-> 4, limit |-> 5, bucket |-> "xyz",
       global |-> FALSE, drift |-> 0, dateOk |-> TRUE],
      [after |-> 150, remaining |-> 0, limit |-> 1, bucket |-> "xyz",
       global |-> FALSE, drift |-> 2, dateOk |-> TRUE],
      [after |-> 2000, remaining |-> Absent, limit |-> Absent, bucket |-> "",
       global |-> TRUE, drift |-> 0, dateOk |-> TRUE],
      [after |-> Bad, remaining |-> 1, limit |-> 1, bucket |-> "xyz",
       global |-> FALSE, drift |-> 0, dateOk |-> FALSE] }

\* http.StatusOK
StatusOK == 200

\* The response that carries answer a, received at local time t.  The date header
\* has whole seconds; X-RateLimit-Reset is the end of the window in epoch seconds
\* with a fraction; a global limit is a 429 whose body says global and retry_after.
Response(a, t) ==
    LET server == t.ms - a.drift IN
    [status |-> IF a.global THEN StatusTooManyRequests ELSE StatusOK,
     decodeOk |-> TRUE,
     body |-> IF a.global
              THEN [kind |-> "json", global |-> TRUE, retry_after |-> a.after,
                    code |-> 0, message |-> "You are being rate limited."]
              ELSE NoBody,
     header |-> [date |-> Ms(1000 * (server \div 1000)), dateOk |-> a.dateOk,
                 reset |-> IF a.global \/ a.after = Absent THEN NoText
                           ELSE IF a.after = Bad THEN BadText
                           ELSE Seconds(server + a.after),
                 resetAfter |-> NoText, retryAfter |-> NoText,
                 remaining |-> a.remaining, limit |-> a.limit, bucket |-> a.bucket,
                 global |-> FALSE]]

\* the body Do holds after decodeResponseBody: nil when decoding failed (the error
\* is overwritten by the next assignment)
decodeResponseBody(resp) == IF resp.decodeOk THEN resp.body ELSE NoBody

\* Do's call of CorrectDiscordHeader on response resp at local time t
Corrected(resp, t) ==
    CorrectDiscordHeader(resp.status, resp.header, decodeResponseBody(resp), t)

\* the corrected header of answer a received at local time t, as UpdateBucket reads it
Header(a, t) == Parsed(Corrected(Response(a, t), t).h)

NoID == [global |-> FALSE, reset |-> Ms(0)]
NoHeader == [date |-> Ms(0), dateOk |-> FALSE, reset |-> Absent, remaining |-> Absent,
             limit |-> Absent, bucket |-> "", global |-> FALSE]
NoResponse == [status |-> 0, decodeOk |-> TRUE, body |-> NoBody,
               header |-> [date |-> Ms(0), dateOk |-> FALSE, reset |-> NoText,
                           resetAfter |-> NoText, retryAfter |-> NoText,
                           remaining |-> Absent, limit |-> Absent, bucket |-> "",
                           global |-> FALSE]]

----------------------------------------------------------------------------
(* Manager *)

\* bucketGroup.bucket: index of the bucket routed for the triple, 0 when none
groupBucket(g, tr) == g[tr]
\* bucketGroup.add of a bucket just appended to the heap at index i
groupAdd(g, tr, i) == [g EXCEPT ![tr] = i]

\* Manager.Bucket: lookup, or creation of a fresh bucket wired to the global one
managerBucket(hp, g, tr, t) ==
    IF groupBucket(g, tr) # 0
    THEN [heap |-> hp, group |-> g, i |-> groupBucket(g, tr), populated |-> TRUE]
    ELSE [heap |-> Append(hp, newBucket(t, <<tr.key>>)),
          group |-> groupAdd(g, tr, Len(hp) + 1),
          i |-> Len(hp) + 1, populated |-> FALSE]

\* append to s the elements of t that s lacks
Union(s, t) ==
    LET has(x) == \E j \in 1 .. Len(s) : s[j] = x
    IN s \o SelectSeq(t, LAMBDA x : ~has(x))

\* bucketGroup.consolidate of heap bucket i: when another bucket of the slot is
\* registered under i's serverKey, i's local keys are routed to that bucket and
\* added to its localKeys; else i is registered under its serverKey
consolidate(hp, g, ks, slot, i) ==
    LET k == hp[i].key
        c == IF k = "" THEN 0 ELSE ks[<<slot, k>>]
    IN IF k = "" \/ c = i THEN [heap |-> hp, group |-> g, keys |-> ks]
       ELSE IF c = 0 THEN [heap |-> hp, group |-> g, keys |-> [ks EXCEPT ![<<slot, k>>] = i]]
       ELSE [heap |-> [hp EXCEPT ![c].localKeys = Union(@, hp[i].localKeys)],
             group |-> [tr \in DOMAIN g |->
                          IF <<tr.class, tr.major>> = slot
                             /\ \E j \in 1 .. Len(hp[i].localKeys) : hp[i].localKeys[j] = tr.key
                          THEN c ELSE g[tr]],
             keys |-> ks]

\* NewManager: the global bucket, made inactive
NewManager(t) == [newBucket(t, <<>>) EXCEPT !.active = FALSE]

Targets == 0 .. Cardinality(Routes)
bucketAt(hp, g, i) == IF i = 0 THEN g ELSE hp[i]

----------------------------------------------------------------------------
(* Client.Do *)

\* c.cancelRequestWhenRateLimited: no code assigns it
cancelRequestWhenRateLimited == FALSE

\* the acceptable delay Do hands to Acquire
acceptableDelay(to) == IF cancelRequestWhenRateLimited THEN Ms(200) ELSE to

\* http.StatusNotModified
StatusNotModified == 304

\* What Do returned: done = it has returned, err = "" for a nil error; resp and
\* body are the response and body handed to the caller (resp = FALSE is nil);
\* sent is the number of calls of httpClient.Do it made.
Running == [done |-> FALSE, err |-> "", httpCode |-> 0, code |-> 0, message |-> "",
            resp |-> FALSE, body |-> NoBody, sent |-> 0]
Failed(e, n) == [Running EXCEPT !.done = TRUE, !.err = e, !.sent = n]

\* Do that goes on with its request after an error of Acquire
afterAcquire_IgnoreError(fl, err, f) == Append(fl, f)

\* Do after Acquire: it returns on an error, else it goes on (f joins the flights)
afterAcquire(fl, err, f) == IF err THEN fl ELSE Append(fl, f)

\* a dispatcher that sends a 429 or 5xx request a second time
roundTrips_Retry(status) == IF status = StatusTooManyRequests \/ status >= 500 THEN 2 ELSE 1

\* the calls of httpClient.Do made by a Do whose request got the answer status
roundTrips(status) == 1

\* the check of the status and the result Do returns for it
classify(status, body) ==
    IF status = StatusNotModified \/ (200 <= status /\ status < 300)
    THEN [Running EXCEPT !.done = TRUE, !.resp = TRUE, !.body = body,
                         !.sent = roundTrips(status)]
    ELSE [Running EXCEPT !.done = TRUE, !.err = "ErrREST", !.httpCode = status,
                         !.code = IF body.kind = "json" THEN body.code ELSE 0,
                         !.message = IF body.kind = "json" THEN body.message ELSE "",
                         !.sent = roundTrips(status)]

\* the serverKey header h gives the bucket of flight f, "" when it gives none
taught(f, h) == IF h.global THEN "" ELSE h.bucket

\* a Do that calls Consolidate before UpdateBucket
applyHeaders_ConsolidateFirst(hp, g, grp, ks, lrn, f, h, t) ==
    LET c == IF f.populated THEN [heap |-> hp, group |-> grp, keys |-> ks]
             ELSE consolidate(hp, grp, ks, <<f.tr.class, f.tr.major>>, f.b)
        m == managerBucket(c.heap, c.group, f.tr, t)
        r == updateBucket(m.heap[m.i], g, h, t)
        lrn1 == IF Len(m.heap) > Len(hp) THEN Append(lrn, NotYet) ELSE lrn
    IN [heap |-> [m.heap EXCEPT ![m.i] = r.b], global |-> r.g, group |-> m.group,
        keys |-> c.keys,
        learned |-> IF f.populated THEN lrn1 ELSE [lrn1 EXCEPT ![f.b] = taught(f, h)],
        tgt |-> IF h.global THEN 0 ELSE m.i, b |-> m.i, updated |-> TRUE]

\* UpdateBucket and, for the Do that created the bucket, Consolidate
applyHeaders(hp, g, grp, ks, lrn, f, h, t) ==
    LET m == managerBucket(hp, grp, f.tr, t)
        r == updateBucket(m.heap[m.i], g, h, t)
        hp1 == [m.heap EXCEPT ![m.i] = r.b]
        lrn1 == IF Len(m.heap) > Len(hp) THEN Append(lrn, NotYet) ELSE lrn
        c == IF f.populated THEN [heap |-> hp1, group |-> m.group, keys |-> ks]
             ELSE consolidate(hp1, m.group, ks, <<f.tr.class, f.tr.major>>, f.b)
    IN [heap |-> c.heap, global |-> r.g, group |-> c.group, keys |-> c.keys,
        learned |-> IF f.populated THEN lrn1 ELSE [lrn1 EXCEPT ![f.b] = taught(f, h)],
        tgt |-> IF h.global THEN 0 ELSE m.i, b |-> m.i, updated |-> TRUE]

\* nothing applied
applyNothing(hp, g, grp, ks, lrn, f) ==
    [heap |-> hp, global |-> g, group |-> grp, keys |-> ks, learned |-> lrn,
     tgt |-> f.b, b |-> f.b, updated |-> FALSE]

\* a Do that checks the status before it updates the bucket
afterResponse_ClassifyFirst(hp, g, grp, ks, lrn, f, resp, t) ==
    LET body == decodeResponseBody(resp)
        n == Corrected(resp, t)
        out == classify(resp.status, body)
    IN IF n.err THEN [st |-> applyNothing(hp, g, grp, ks, lrn, f), hdr |-> NoHeader,
                      out |-> Failed("CorrectDiscordHeader", roundTrips(resp.status))]
       ELSE IF out.err # ""
            THEN [st |-> applyNothing(hp, g, grp, ks, lrn, f), hdr |-> Parsed(n.h), out |-> out]
            ELSE [st |-> applyHeaders(hp, g, grp, ks, lrn, f, Parsed(n.h), t),
                  hdr |-> Parsed(n.h), out |-> out]

\* Do from the arrival of response resp at local time t to its return: the
\* manager's state, the header UpdateBucket read and Do's result
afterResponse(hp, g, grp, ks, lrn, f, resp, t) ==
    LET body == decodeResponseBody(resp)
        n == Corrected(resp, t)
    IN IF n.err THEN [st |-> applyNothing(hp, g, grp, ks, lrn, f), hdr |-> NoHeader,
                      out |-> Failed("CorrectDiscordHeader", roundTrips(resp.status))]
       ELSE [st |-> applyHeaders(hp, g, grp, ks, lrn, f, Parsed(n.h), t),
             hdr |-> Parsed(n.h), out |-> classify(resp.status, body)]

\* no builder has been made
NoBuilder == [state |-> "none", prereqs |-> <<>>, cancel |-> FALSE, body |-> {},
              tr |-> [class |-> "", major |-> 0, key |-> ""],
              sends |-> 0, v |-> FALSE, err |-> ""]

\* CorrectDiscordHeader has not been called on its own
NoNorm == [status |-> 0, header |-> NoResponse.header, body |-> NoBody, t |-> Ms(0),
           after |-> 0, err |-> FALSE, h |-> NoResponse.header]

\* the goroutines explored
Threads == 1 .. MaxThreads
\* no result of a bucket operation is held
NoResult == [b |-> NewManager(Ms(0)), delay |-> Ms(0), rateLimited |-> FALSE, err |-> FALSE]
\* a goroutine that has not called Do
Idle == [pc |-> "start", b |-> 0, id |-> NoID, pending |-> NoResult, ok |-> FALSE,
         granted |-> FALSE, err |-> FALSE, wire |-> "", hdr |-> NoHeader, bare |-> FALSE,
         key |-> ""]

\* no filter key is set
NoFilter == [around |-> 0, before |-> 0, after |-> 0, limit |-> 0]
\* GetMessages has not been called
NoCall == [pc |-> "idle", chan |-> {}, filter |-> NoFilter, asked |-> NoFilter,
           phase |-> "", branch |-> 0, messages |-> <<>>, pages |-> 0, err |-> FALSE]

\* the Message objects the goroutines copy
MessageIDs == { 1, 2, 3 }
\* NewMessage: nobody holds the mutex
NewMessage(m) == [content |-> m, readers |-> {}, writer |-> 0]
\* a goroutine that has not called CopyOverTo
NoCopy == [pc |-> "start", src |-> 0, dst |-> 0]

\* the state NewClient leaves; active is the global bucket's flag
InitWith(active) ==
    /\ now = Start
    /\ timeout \in Timeouts
    /\ global = [NewManager(Start) EXCEPT !.active = active]
    /\ heap = <<>>
    /\ group = [tr \in Routes |-> 0]
    /\ byKey = [x \in Slots \X ServerKeys |-> 0]
    /\ learned = <<>>
    /\ flights = <<>>
    /\ started = 0
    /\ granted = [i \in Targets |-> 0]
    /\ globalSeen = FALSE
    /\ last = [op |-> "new", tgt |-> 0, b |-> 0, within |-> Ms(0), delay |-> Ms(0),
               rateLimited |-> FALSE, err |-> FALSE, id |-> NoID, hdr |-> NoHeader,
               pre |-> [remaining |-> 0, reset |-> Ms(0), limit |-> 0, refreshed |-> FALSE],
               resp |-> NoResponse,
               out |-> Running]
    /\ builder = NoBuilder
    /\ norm = NoNorm
    /\ thr = [t \in Threads |-> Idle]
    /\ mu = [x \in Targets |-> 0]
    /\ reqHeader = ""
    /\ gm = NoCall
    /\ cp = [t \in Threads |-> NoCopy]
    /\ msgs = [m \in MessageIDs |-> NewMessage(m)]

Init == InitWith(NewManager(Start).active)

\* time passes
Tick ==
    /\ \E t \in Times : TAfter(t, now) /\ now' = t
    /\ UNCHANGED <<timeout, global, heap, group, flights, started, last, granted, globalSeen,
                   byKey, learned>>
    /\ UNCHANGED layerVars

\* Do on a request routed by triple tr, from its start to the result of Acquire:
\* the bucket is looked up or made, then acquired at time.Now(); on
\* ErrRateLimited Do returns
AcquireStep(tr) ==
    /\ started < MaxRequests
    /\ Len(flights) < MaxFlights
    /\ LET m == managerBucket(heap, group, tr, now)
           w == acceptableDelay(timeout)
           r == Acquire(m.heap[m.i], global, now, w)
           tgt == IF r.id.global THEN 0 ELSE m.i
           pre == bucketAt(m.heap, global, tgt)
           post == bucketAt([m.heap EXCEPT ![m.i] = r.b], r.g, tgt)
           kept == IF post.reset = pre.reset THEN granted[tgt] ELSE 0
       IN /\ heap' = [m.heap EXCEPT ![m.i] = r.b]
          /\ group' = m.group
          /\ learned' = IF m.populated THEN learned ELSE Append(learned, NotYet)
          /\ global' = r.g
          /\ flights' = afterAcquire(flights, r.err,
                                     [tr |-> tr, b |-> m.i, id |-> r.id,
                                      immediate |-> ~r.rateLimited,
                                      populated |-> m.populated])
          /\ granted' = [granted EXCEPT ![tgt] =
                            IF r.err \/ r.rateLimited THEN kept ELSE kept + 1]
          /\ last' = [op |-> "acquire", tgt |-> tgt, b |-> m.i, within |-> w,
                      delay |-> r.delay, rateLimited |-> r.rateLimited,
                      err |-> r.err, id |-> r.id, hdr |-> NoHeader,
                      pre |-> [remaining |-> pre.remaining, reset |-> pre.reset,
                               limit |-> pre.limit,
                               refreshed |-> update(pre, now) # pre],
                      resp |-> NoResponse,
                      out |-> IF r.err THEN Failed("ErrRateLimited", 0) ELSE Running]
    /\ started' = started + 1
    /\ UNCHANGED <<now, timeout, globalSeen, byKey>>

Remove(s, k) == [j \in 1 .. Len(s) - 1 |-> IF j < k THEN s[j] ELSE s[j + 1]]

\* Do, when it returns an error and calls RegretAcquire with the bucketID of its
\* Acquire: http.NewRequest failed (sent = 0) or the round trip failed (sent = 1)
RegretStep(k, e, sent) ==
    LET f == flights[k]
        r == RegretAcquire(heap[f.b], global, f.id)
        tgt == IF f.id.global THEN 0 ELSE f.b
        refunded == bucketAt(heap, global, tgt) # bucketAt([heap EXCEPT ![f.b] = r.b], r.g, tgt)
    IN /\ heap' = [heap EXCEPT ![f.b] = r.b]
       /\ global' = r.g
       /\ flights' = Remove(flights, k)
       /\ granted' = [granted EXCEPT ![tgt] =
                         IF refunded /\ f.immediate /\ @ > 0 THEN @ - 1 ELSE @]
       /\ last' = [last EXCEPT !.op = "regret", !.tgt = tgt, !.b = f.b, !.id = f.id,
                               !.hdr = NoHeader, !.resp = NoResponse,
                               !.out = Failed(e, sent)]
       /\ UNCHANGED <<now, timeout, group, started, globalSeen, byKey, learned>>

\* Do, when the round trip fails
DoTransportError ==
    /\ \E k \in 1 .. Len(flights) : RegretStep(k, "transport", 1)
    /\ UNCHANGED layerVars

\* Do, when http.NewRequest rejects the method or the URL
DoRequestError ==
    /\ \E k \in 1 .. Len(flights) : RegretStep(k, "NewRequest", 0)
    /\ UNCHANGED layerVars

\* Do, when the body is neither nil nor an io.Reader and the content type is not
\* JSON, or json.Marshal fails: it returns the error at once
DoBodyError ==
    \E k \in 1 .. Len(flights), e \in {"body type", "json.Marshal"} :
        /\ flights' = Remove(flights, k)
        /\ last' = [last EXCEPT !.op = "body", !.tgt = IF flights[k].id.global THEN 0
                                                        ELSE flights[k].b,
                                !.b = flights[k].b, !.id = flights[k].id,
                                !.hdr = NoHeader, !.resp = NoResponse,
                                !.out = Failed(e, 0)]
        /\ UNCHANGED <<now, timeout, global, heap, group, started, granted, globalSeen,
                       byKey, learned>>
        /\ UNCHANGED layerVars

\* Do, when response resp arrived: decodeResponseBody, CorrectDiscordHeader,
\* UpdateBucket, Consolidate and the check of the status
ResponseStep(k, resp) ==
    \E a \in { afterResponse(heap, global, group, byKey, learned, flights[k], resp, now) } :
    LET f == flights[k]
        pre == bucketAt(heap, global, a.st.tgt)
        post == bucketAt(a.st.heap, a.st.global, a.st.tgt)
    IN /\ heap' = a.st.heap
       /\ group' = a.st.group
       /\ global' = a.st.global
       /\ byKey' = a.st.keys
       /\ learned' = a.st.learned
       /\ flights' = Remove(flights, k)
       /\ granted' = [granted EXCEPT ![a.st.tgt] = IF post.reset = pre.reset THEN @ ELSE 0]
       /\ globalSeen' = (globalSeen \/ (a.st.updated /\ a.hdr.global))
       /\ last' = [last EXCEPT !.op = IF a.st.updated THEN "update" ELSE "rejected",
                               !.tgt = a.st.tgt, !.b = a.st.b, !.id = f.id,
                               !.hdr = a.hdr, !.resp = resp, !.out = a.out]
       /\ UNCHANGED <<now, timeout, started>>

\* Do on the routes of Triples
DoAcquire ==
    /\ \E tr \in Triples : AcquireStep(tr)
    /\ UNCHANGED layerVars

\* Do, when CorrectDiscordHeader rejects the response: it returns before UpdateBucket
DoHeaderError ==
    /\ \E k \in 1 .. Len(flights), a \in Answers :
          Corrected(Response(a, now), now).err /\ ResponseStep(k, Response(a, now))
    /\ UNCHANGED layerVars

\* Do, when the response arrived and its header was corrected
DoResponse ==
    /\ \E k \in 1 .. Len(flights), a \in Answers :
          ~Corrected(Response(a, now), now).err /\ ResponseStep(k, Response(a, now))
    /\ UNCHANGED layerVars

Next == Tick \/ DoAcquire \/ DoTransportError \/ DoHeaderError \/ DoResponse

Spec == Init /\ [][Next]_vars

\* The same client with the global bucket's active flag set: no code assigns the
\* flag, so Acquire's branch on it is exercised with the flag given.
InitActive == InitWith(TRUE)

SpecActive == InitActive /\ [][Next]_vars

\* a client whose global bucket is active or not
InitEither == InitWith(TRUE) \/ InitWith(FALSE)

SpecEither == InitEither /\ [][Next]_vars

\* The client of scenario S5: requests on two routes of one channel, answered
\* with or without the bucket name "xyz", at one instant.
RouteAnswers == { a \in Answers : ~a.global /\ a.dateOk /\ a.drift = 0 }

InitRoutes == Init /\ timeout = Ms(200)

RouteAcquire ==
    /\ \E tr \in Routes : AcquireStep(tr)
    /\ UNCHANGED layerVars

RouteResponse ==
    /\ \E k \in 1 .. Len(flights), a \in RouteAnswers : ResponseStep(k, Response(a, now))
    /\ UNCHANGED layerVars

NextRoutes == RouteAcquire \/ DoTransportError \/ RouteResponse

SpecRoutes == InitRoutes /\ [][NextRoutes]_vars

\* The client with requests of every shape and answers of every class of status,
\* with well-formed and malformed rate-limit headers, at one instant.
Window(t) ==
    Response([after |-> 1000, remaining |-> 4, limit |-> 5, bucket |-> "xyz",
              global |-> FALSE, drift |-> 0, dateOk |-> TRUE], t)
Silent(t) ==
    Response([after |-> Absent, remaining |-> Absent, limit |-> Absent, bucket |-> "",
              global |-> FALSE, drift |-> 0, dateOk |-> TRUE], t)
With(resp, status, body) == [resp EXCEPT !.status = status, !.body = body]

\* bodies: a JSON payload, Discord's error object, Discord's rate-limit objects,
\* and a text that is no JSON
JsonBody == [NoBody EXCEPT !.kind = "json"]
ErrorBody == [NoBody EXCEPT !.kind = "json", !.code = 10003, !.message = "Unknown Channel"]
LimitBody(g, after) ==
    [NoBody EXCEPT !.kind = "json", !.global = g, !.retry_after = after,
                   !.message = "You are being rate limited."]
TextBody == [NoBody EXCEPT !.kind = "text"]

Replies(t) ==
    { With(Window(t), 200, JsonBody),
      With(Silent(t), 204, NoBody),
      With(Silent(t), StatusNotModified, NoBody),
      With(Window(t), 404, ErrorBody),
      With(Silent(t), 500, TextBody),
      With([Silent(t) EXCEPT !.header.remaining = 0], StatusTooManyRequests,
           LimitBody(FALSE, 150)),
      With(Silent(t), StatusTooManyRequests, LimitBody(TRUE, 2000)),
      With(Silent(t), StatusTooManyRequests, TextBody),
      With([Silent(t) EXCEPT !.header.resetAfter = Num(1, 500, TRUE)], 200, JsonBody),
      With([Silent(t) EXCEPT !.header.resetAfter = BadText], 200, JsonBody),
      With([Silent(t) EXCEPT !.header.retryAfter = Num(1, 500, TRUE)], 200, JsonBody),
      With([Window(t) EXCEPT !.header.reset = BadText], 404, ErrorBody),
      With([Window(t) EXCEPT !.header.dateOk = FALSE], 200, JsonBody),
      [With(Window(t), 200, JsonBody) EXCEPT !.decodeOk = FALSE] }

InitDo == Init /\ timeout = Ms(200)

DoReply ==
    /\ \E k \in 1 .. Len(flights), resp \in Replies(now) : ResponseStep(k, resp)
    /\ UNCHANGED layerVars

NextDo == DoAcquire \/ DoBodyError \/ DoRequestError \/ DoTransportError \/ DoReply

SpecDo == InitDo /\ [][NextDo]_vars

----------------------------------------------------------------------------
(* The request builder of an endpoint binding *)

\* the Snowflake arguments explored: zero and the channel (message) 42
Snowflakes == { 0, 42 }

\* RESTBuilder.addPrereq: the pair (condition, message) joins the builder's list
addPrereq(b, cond, msg) == [b EXCEPT !.prereqs = Append(@, [cond |-> cond, msg |-> msg])]

\* the builder Client.UpdateMessage(chanID, msgID) returns
updateMessageBuilder(chanID, msgID) ==
    [addPrereq(addPrereq(NoBuilder, chanID = 0,
                         "channelID must be set to get channel messages"),
               msgID = 0, "msgID must be set to edit the message")
     EXCEPT !.state = "Configuring",
            !.tr = [class |-> "channels", major |-> chanID, key |-> "messages"]]

\* RESTBuilder.execute up to its call of Client.Do: the message of the first
\* precondition whose condition is true, "" when there is none
prerequisite(b) ==
    IF \E i \in 1 .. Len(b.prereqs) : b.prereqs[i].cond
    THEN b.prereqs[CHOOSE i \in 1 .. Len(b.prereqs) :
                       /\ b.prereqs[i].cond
                       /\ \A j \in 1 .. i - 1 : ~b.prereqs[j].cond].msg
    ELSE ""

\* an Execute that returns the value and drops the error
executeResult_Swallow(v, err) == [v |-> v, err |-> ""]

\* the generated Execute: what it returns for the (v, err) of RESTBuilder.execute
executeResult(v, err) ==
    IF err # "" THEN [v |-> FALSE, err |-> err] ELSE [v |-> v, err |-> ""]

\* the builder when its Execute has returned r
done(b, r) == [b EXCEPT !.state = "Done", !.v = r.v, !.err = r.err]

\* an endpoint binding makes the builder
UpdateMessage ==
    /\ builder.state = "none"
    /\ \E chanID \in Snowflakes, msgID \in Snowflakes :
          builder' = updateMessageBuilder(chanID, msgID)
    /\ UNCHANGED <<clientVars, normVars, threadVars, messageVars>>

\* the generated SetContent: the field joins the body, no prerequisite
SetContent ==
    /\ builder.state = "Configuring"
    /\ builder' = [builder EXCEPT !.body = @ \cup {"content"}]
    /\ UNCHANGED <<clientVars, normVars, threadVars, messageVars>>

\* the generated Set(name, v): b.r.body[name] = v, whatever the builder's state
Set ==
    /\ builder.state # "none"
    /\ \E name \in {"content", "tts"} :
          builder' = [builder EXCEPT !.body = @ \cup {name}]
    /\ UNCHANGED <<clientVars, normVars, threadVars, messageVars>>

\* the generated CancelOnRatelimit
CancelOnRatelimit ==
    /\ builder.state = "Configuring"
    /\ ~builder.cancel
    /\ builder' = [builder EXCEPT !.cancel = TRUE]
    /\ UNCHANGED <<clientVars, normVars, threadVars, messageVars>>

\* Execute, when a precondition is true: it returns the message as an error
ExecuteRejected ==
    /\ builder.state = "Configuring"
    /\ prerequisite(builder) # ""
    /\ builder' = done(builder, executeResult(FALSE, prerequisite(builder)))
    /\ UNCHANGED <<clientVars, normVars, threadVars, messageVars>>

\* Execute, when no precondition is true: Client.Do is called with the builder's
\* request; on ErrRateLimited Do and Execute return at once
ExecuteDispatch ==
    /\ builder.state = "Configuring"
    /\ prerequisite(builder) = ""
    /\ AcquireStep(builder.tr)
    /\ builder' = IF last'.err
                  THEN done([builder EXCEPT !.sends = @ + 1],
                            executeResult(FALSE, last'.out.err))
                  ELSE [builder EXCEPT !.state = "Executing", !.sends = @ + 1]
    /\ UNCHANGED <<normVars, threadVars, messageVars>>

\* Execute, when the round trip of its Do fails
ExecuteTransportError ==
    /\ builder.state = "Executing"
    /\ \E k \in 1 .. Len(flights) : RegretStep(k, "transport", 1)
    /\ builder' = done(builder, executeResult(FALSE, last'.out.err))
    /\ UNCHANGED <<normVars, threadVars, messageVars>>

\* Execute, when the response of its Do arrived: the body of a success is decoded
\* into the result
ExecuteReply ==
    /\ builder.state = "Executing"
    /\ \E k \in 1 .. Len(flights), resp \in Replies(now) : ResponseStep(k, resp)
    /\ builder' = done(builder, executeResult(last'.out.err = "", last'.out.err))
    /\ UNCHANGED <<normVars, threadVars, messageVars>>

NextBuilder ==
    \/ UpdateMessage \/ SetContent \/ Set \/ CancelOnRatelimit
    \/ ExecuteRejected \/ ExecuteDispatch \/ ExecuteTransportError \/ ExecuteReply

SpecBuilder == Init /\ [][NextBuilder]_vars

----------------------------------------------------------------------------
(* CorrectDiscordHeader on the forms of the rate-limit headers *)

\* the window's remaining time on the server, in milliseconds
Afters == { 1500, 2000 }

\* the ways a server writes the duration or epoch instant of ms milliseconds: not
\* at all, in whole seconds, in milliseconds, in seconds with a fraction
Forms(ms) ==
    { NoText, Num(ms, 0, FALSE), Seconds(ms) }
    \cup (IF ms % 1000 = 0 THEN { Num(ms \div 1000, 0, FALSE) } ELSE {})

\* status and body of the answers: a success, and a 429 whose JSON body has
\* retry_after 0 or the window's remaining time
Limits(after) ==
    { [status |-> StatusOK, body |-> NoBody],
      [status |-> StatusTooManyRequests, body |-> LimitBody(FALSE, 0)],
      [status |-> StatusTooManyRequests, body |-> LimitBody(FALSE, after)] }

\* one call of CorrectDiscordHeader at local time now, on a header the server
\* wrote at that time; the function keeps no state, so one call is explored
Normalize ==
    /\ norm = NoNorm
    /\ \E after \in Afters, dateOk \in BOOLEAN :
          \E l \in Limits(after), reset \in Forms(now.ms + after),
             resetAfter \in Forms(after), retryAfter \in Forms(after) :
          \E header \in { [NoResponse.header EXCEPT !.date = now, !.dateOk = dateOk,
                                                    !.reset = reset,
                                                    !.resetAfter = resetAfter,
                                                    !.retryAfter = retryAfter] } :
          \E n \in { CorrectDiscordHeader(l.status, header, l.body, now) } :
             norm' = [status |-> l.status, header |-> header, body |-> l.body, t |-> now,
                      after |-> after, err |-> n.err, h |-> n.h]
    /\ UNCHANGED <<clientVars, builderVars, threadVars, messageVars>>

SpecNormalize == Init /\ [][Normalize]_vars

----------------------------------------------------------------------------
(* Client.Do run by several goroutines: the bucket mutexes and the header map *)

\* a Lock that does not wait for the holder
lockFree_Always(m, x) == TRUE

\* Lock on the mutex of bucket x returns when no goroutine holds it
lockFree(m, x) == m[x] = 0

\* Unlock on the mutex of bucket x
Unlock(m, x) == [m EXCEPT ![x] = 0]

\* an Unlock written at the end of UpdateBucket, which an early return skips
deferUnlock_AtEnd(m, x, early) == IF early THEN m ELSE Unlock(m, x)

\* the deferred Unlock of UpdateBucket: it runs on every return
deferUnlock(m, x, early) == Unlock(m, x)

\* the permits bucket 1 starts with (limit = remaining)
Permits == { 1, 2, 3 }

\* the content type of the request goroutine t sends, fixed per goroutine
ContentTypes == <<"application/json", "multipart/form-data">>
contentType(t) == ContentTypes[((t - 1) % 2) + 1]

\* the corrected headers of the answers: a window of the bucket, a global limit,
\* and an X-RateLimit-Remaining that strconv.ParseInt rejects
ThreadHeaders ==
    { [NoHeader EXCEPT !.date = Start, !.dateOk = TRUE, !.reset = 2000,
                       !.remaining = 1, !.limit = 2],
      [NoHeader EXCEPT !.date = Start, !.dateOk = TRUE, !.reset = 3000, !.global = TRUE],
      [NoHeader EXCEPT !.remaining = Bad] }

\* UpdateBucket returns before its last statement
earlyReturn(h) == h.reset = Bad \/ h.remaining = Bad \/ h.limit = Bad

\* the bucket a goroutine's RegretAcquire or UpdateBucket locks and writes
regretTarget(r) == IF r.id.global THEN 0 ELSE r.b
updateTarget(r) == IF r.hdr.global THEN 0 ELSE r.b

\* what a read of bucket b's reset by goroutine t may return: the stored value,
\* or, when t does not hold b's mutex, the value another goroutine is writing
resetRead(t, b) ==
    { heap[b].reset }
    \cup (IF mu[b] = t THEN {}
          ELSE { thr[u].pending.b.reset : u \in { v \in Threads : thr[v].pc = "localHeld"
                                                                  /\ thr[v].b = b } })

\* two buckets exist, bucket 1 with k permits of a window that ends in an hour
InitThreads ==
    /\ now = Start
    /\ timeout \in { Ms(0), Ms(200) }
    /\ global = NewManager(Start)
    /\ \E k \in Permits :
          heap = << [newBucket(Start, <<"messages">>) EXCEPT !.limit = k, !.remaining = k],
                    newBucket(Start, <<"messages-del">>) >>
    /\ group = [tr \in Routes |-> IF tr.key = "messages" THEN 1 ELSE 2]
    /\ byKey = [x \in Slots \X ServerKeys |-> 0]
    /\ learned = <<NotYet, NotYet>>
    /\ flights = <<>>
    /\ started = 0
    /\ granted = [i \in Targets |-> 0]
    /\ globalSeen = FALSE
    /\ last = [op |-> "new", tgt |-> 0, b |-> 0, within |-> Ms(0), delay |-> Ms(0),
               rateLimited |-> FALSE, err |-> FALSE, id |-> NoID, hdr |-> NoHeader,
               pre |-> [remaining |-> 0, reset |-> Ms(0), limit |-> 0, refreshed |-> FALSE],
               resp |-> NoResponse,
               out |-> Running]
    /\ builder = NoBuilder
    /\ norm = NoNorm
    /\ thr = [t \in Threads |-> Idle]
    /\ mu = [x \in Targets |-> 0]
    /\ reqHeader = ""
    /\ gm = NoCall
    /\ cp = [t \in Threads |-> NoCopy]
    /\ msgs = [m \in MessageIDs |-> NewMessage(m)]

\* what the steps of the goroutines leave alone
threadRest == <<now, timeout, group, flights, started, last, granted, globalSeen, byKey,
                learned, builderVars, normVars, messageVars>>

\* Do looks the bucket up; Acquire locks the global bucket and, when it is
\* active, computes global.acquire
TLockGlobal ==
    /\ \E t \in Threads, b \in 1 .. Len(heap) :
          /\ thr[t].pc = "start"
          /\ lockFree(mu, 0)
          /\ mu' = [mu EXCEPT ![0] = t]
          /\ thr' = [thr EXCEPT ![t].pc = "globalHeld", ![t].b = b,
                                ![t].ok = global.active,
                                ![t].pending =
                                    IF global.active
                                    THEN acquire(global, now, acceptableDelay(timeout))
                                    ELSE NoResult]
    /\ UNCHANGED <<global, heap, reqHeader, threadRest>>

\* Acquire stores the global bucket, unlocks it, and returns when it decided
TUnlockGlobal ==
    /\ \E t \in Threads :
          /\ thr[t].pc = "globalHeld"
          /\ global' = IF thr[t].ok THEN thr[t].pending.b ELSE global
          /\ mu' = Unlock(mu, 0)
          /\ thr' = [thr EXCEPT
                       ![t].pc = IF ~thr[t].ok THEN "local"
                                 ELSE IF thr[t].pending.err THEN "done" ELSE "acquired",
                       ![t].id = IF thr[t].ok
                                 THEN [global |-> TRUE, reset |-> thr[t].pending.b.reset]
                                 ELSE @,
                       ![t].granted = thr[t].ok /\ ~thr[t].pending.rateLimited,
                       ![t].err = thr[t].ok /\ thr[t].pending.err,
                       ![t].pending = NoResult]
    /\ UNCHANGED <<heap, reqHeader, threadRest>>

\* Acquire locks the local bucket and computes b.acquire
TLockLocal ==
    /\ \E t \in Threads :
          /\ thr[t].pc = "local"
          /\ lockFree(mu, thr[t].b)
          /\ mu' = [mu EXCEPT ![thr[t].b] = t]
          /\ thr' = [thr EXCEPT ![t].pc = "localHeld",
                                ![t].pending = acquire(heap[thr[t].b], now,
                                                       acceptableDelay(timeout))]
    /\ UNCHANGED <<global, heap, reqHeader, threadRest>>

\* Acquire stores the local bucket, takes its reset for the bucketID, unlocks
\* (deferred) and returns
TUnlockLocal ==
    /\ \E t \in Threads :
          /\ thr[t].pc = "localHeld"
          /\ heap' = [heap EXCEPT ![thr[t].b] = thr[t].pending.b]
          /\ mu' = Unlock(mu, thr[t].b)
          /\ thr' = [thr EXCEPT
                       ![t].pc = IF thr[t].pending.err THEN "done" ELSE "acquired",
                       ![t].id = [global |-> FALSE, reset |-> thr[t].pending.b.reset],
                       ![t].granted = ~thr[t].pending.rateLimited,
                       ![t].err = thr[t].pending.err,
                       ![t].bare = @ \/ mu[thr[t].b] # t,
                       ![t].pending = NoResult]
    /\ UNCHANGED <<global, reqHeader, threadRest>>

\* req.Header = c.reqHeader; req.Header.Set(ContentType, r.ContentType)
TSetHeader ==
    /\ \E t \in Threads :
          /\ thr[t].pc = "acquired"
          /\ reqHeader' = contentType(t)
          /\ thr' = [thr EXCEPT ![t].pc = "send"]
    /\ UNCHANGED <<global, heap, mu, threadRest>>

\* httpClient.Do(req): the request goes out with the header map as it is; the
\* round trip fails, or an answer with a header arrives
TSend ==
    /\ \E t \in Threads :
          /\ thr[t].pc = "send"
          /\ \/ thr' = [thr EXCEPT ![t].pc = "regret", ![t].wire = reqHeader]
             \/ \E h \in ThreadHeaders :
                   thr' = [thr EXCEPT ![t].pc = "update", ![t].wire = reqHeader,
                                      ![t].hdr = h]
    /\ UNCHANGED <<global, heap, mu, reqHeader, threadRest>>

\* RegretAcquire locks the bucket the bucketID names
TLockRegret ==
    /\ \E t \in Threads :
          /\ thr[t].pc = "regret"
          /\ lockFree(mu, regretTarget(thr[t]))
          /\ mu' = [mu EXCEPT ![regretTarget(thr[t])] = t]
          /\ thr' = [thr EXCEPT ![t].pc = "regretHeld"]
    /\ UNCHANGED <<global, heap, reqHeader, threadRest>>

\* RegretAcquire compares the reset, gives the permit back and unlocks
TUnlockRegret ==
    /\ \E t \in Threads :
          /\ thr[t].pc = "regretHeld"
          /\ \E r \in { RegretAcquire(heap[thr[t].b], global, thr[t].id) } :
                heap' = [heap EXCEPT ![thr[t].b] = r.b] /\ global' = r.g
          /\ mu' = Unlock(mu, regretTarget(thr[t]))
          /\ thr' = [thr EXCEPT ![t].pc = "done",
                                ![t].bare = @ \/ mu[regretTarget(thr[t])] # t]
    /\ UNCHANGED <<reqHeader, threadRest>>

\* UpdateBucket locks the global bucket for X-RateLimit-Global = true, else the
\* looked-up one
TLockUpdate ==
    /\ \E t \in Threads :
          /\ thr[t].pc = "update"
          /\ lockFree(mu, updateTarget(thr[t]))
          /\ mu' = [mu EXCEPT ![updateTarget(thr[t])] = t]
          /\ thr' = [thr EXCEPT ![t].pc = "updateHeld"]
    /\ UNCHANGED <<global, heap, reqHeader, threadRest>>

\* UpdateBucket reads old := b.reset of the looked-up bucket, writes the locked
\* bucket and unlocks it on return
TUnlockUpdate ==
    /\ \E t \in { u \in Threads : thr[u].pc = "updateHeld" } :
          \E x \in { updateTarget(thr[t]) }, h \in { thr[t].hdr } :
          \E old \in (IF h.reset = Absent \/ h.reset = Bad THEN { heap[thr[t].b].reset }
                       ELSE resetRead(t, thr[t].b)) :
             /\ thr[t].pc = "updateHeld"
             /\ IF x = 0
                THEN /\ global' = updateFields(global, old, h, now)
                     /\ heap' = heap
                ELSE /\ heap' = [heap EXCEPT ![x] = updateFields(heap[x], old, h, now)]
                     /\ global' = global
             /\ mu' = deferUnlock(mu, x, earlyReturn(h))
             /\ thr' = [thr EXCEPT
                          ![t].pc = "done",
                          ![t].bare = \/ @
                                      \/ mu[x] # t
                                      \/ (h.reset # Absent /\ h.reset # Bad
                                            /\ mu[thr[t].b] # t)]
    /\ UNCHANGED <<reqHeader, threadRest>>

NextThreads ==
    \/ TLockGlobal \/ TUnlockGlobal \/ TLockLocal \/ TUnlockLocal
    \/ TSetHeader \/ TSend
    \/ TLockRegret \/ TUnlockRegret \/ TLockUpdate \/ TUnlockUpdate

SpecThreads == InitThreads /\ [][NextThreads]_vars

----------------------------------------------------------------------------
(* A route before its first response: Do calls that end without UpdateBucket *)

NextCold == Tick \/ DoAcquire \/ DoTransportError

SpecCold == Init /\ [][NextCold]_vars

----------------------------------------------------------------------------
(* Manager.Bucket called by several goroutines *)

\* the route with local key k
routeOf(k) == CHOOSE tr \in Routes : tr.key = k

\* what the steps of Manager.Bucket leave alone
lookupRest == <<timeout, global, flights, started, last, granted, globalSeen, byKey,
                mu, reqHeader, builderVars, normVars, messageVars>>

\* Manager.Bucket, first half: group.bucket(majorID, localBucketKey) under the
\* group's read lock; on a hit Bucket returns (b, true)
BucketLookup ==
    /\ \E t \in Threads, tr \in Routes :
          /\ thr[t].pc = "start"
          /\ thr' = [thr EXCEPT ![t].key = tr.key,
                                ![t].b = groupBucket(group, tr),
                                ![t].ok = groupBucket(group, tr) # 0,
                                ![t].pc = IF groupBucket(group, tr) # 0 THEN "found"
                                          ELSE "miss"]
    /\ UNCHANGED <<now, heap, group, learned, lookupRest>>

\* Manager.Bucket, second half: newBucket, then group.add under the group's
\* write lock; Bucket returns (b, false) with the bucket it made
BucketCreate ==
    /\ \E t \in Threads :
          /\ thr[t].pc = "miss"
          /\ heap' = Append(heap, newBucket(now, <<thr[t].key>>))
          /\ group' = groupAdd(group, routeOf(thr[t].key), Len(heap) + 1)
          /\ learned' = Append(learned, NotYet)
          /\ thr' = [thr EXCEPT ![t].b = Len(heap) + 1, ![t].ok = FALSE, ![t].pc = "found"]
    /\ UNCHANGED <<now, lookupRest>>

\* time passes between the calls
BucketTick ==
    /\ \E t \in Times : TAfter(t, now) /\ now' = t
    /\ UNCHANGED <<heap, group, learned, thr, lookupRest>>

NextBucket == BucketLookup \/ BucketCreate \/ BucketTick

SpecBucket == Init /\ [][NextBucket]_vars

----------------------------------------------------------------------------
(* One route whose callers keep calling while time passes *)

\* the grants past zero after which the callers are not followed further
MaxWrap == 3

\* headers that do not move reset into the future: no rate-limit header at all,
\* an exhausted window without a reset, and a reset that lies in the past
QuietHeaders ==
    { NoHeader,
      [NoHeader EXCEPT !.remaining = 0, !.limit = 1],
      [NoHeader EXCEPT !.reset = 2000, !.remaining = 0, !.limit = 1] }

\* the route's bucket was made at Start
InitLockout ==
    /\ now = Start
    /\ timeout \in { Ms(0), Ms(200) }
    /\ global = NewManager(Start)
    /\ heap = << newBucket(Start, <<"messages">>) >>
    /\ group = [tr \in Routes |-> IF tr.key = "messages" THEN 1 ELSE 0]
    /\ byKey = [x \in Slots \X ServerKeys |-> 0]
    /\ learned = <<NotYet>>
    /\ flights = <<>>
    /\ started = 0
    /\ granted = [i \in Targets |-> 0]
    /\ globalSeen = FALSE
    /\ last = [op |-> "new", tgt |-> 0, b |-> 0, within |-> Ms(0), delay |-> Ms(0),
               rateLimited |-> FALSE, err |-> FALSE, id |-> NoID, hdr |-> NoHeader,
               pre |-> [remaining |-> 0, reset |-> Ms(0), limit |-> 0, refreshed |-> FALSE],
               resp |-> NoResponse,
               out |-> Running]
    /\ builder = NoBuilder
    /\ norm = NoNorm
    /\ thr = [t \in Threads |-> Idle]
    /\ mu = [x \in Targets |-> 0]
    /\ reqHeader = ""
    /\ gm = NoCall
    /\ cp = [t \in Threads |-> NoCopy]
    /\ msgs = [m \in MessageIDs |-> NewMessage(m)]

lockoutRest == <<timeout, group, flights, started, granted, globalSeen, byKey, learned,
                 layerVars>>

\* a caller's Acquire on the route's bucket
LockoutAcquire ==
    /\ heap[1].remaining > -MaxWrap
    /\ \E r \in { Acquire(heap[1], global, now, acceptableDelay(timeout)) } :
          /\ heap' = [heap EXCEPT ![1] = r.b]
          /\ global' = r.g
          /\ last' = [last EXCEPT !.op = "acquire", !.tgt = 1, !.b = 1,
                                  !.within = acceptableDelay(timeout),
                                  !.delay = r.delay, !.rateLimited = r.rateLimited,
                                  !.err = r.err, !.id = r.id, !.hdr = NoHeader,
                                  !.pre = [remaining |-> heap[1].remaining,
                                           reset |-> heap[1].reset,
                                           limit |-> heap[1].limit,
                                           refreshed |-> update(heap[1], now) # heap[1]]]
    /\ UNCHANGED <<now, lockoutRest>>

\* UpdateBucket with the header of a response to one of the granted requests
LockoutUpdate ==
    /\ \E h \in QuietHeaders :
       \E u \in { updateBucket(heap[1], global, h, now) } :
          /\ heap' = [heap EXCEPT ![1] = u.b]
          /\ global' = u.g
          /\ last' = [last EXCEPT !.op = "update", !.tgt = 1, !.b = 1, !.hdr = h]
    /\ UNCHANGED <<now, lockoutRest>>

\* time passes
LockoutTick ==
    /\ \E t \in Times : TAfter(t, now) /\ now' = t
    /\ UNCHANGED <<heap, global, last, lockoutRest>>

NextLockout == LockoutAcquire \/ LockoutUpdate \/ LockoutTick

\* time keeps advancing and the callers keep calling
SpecLockout ==
    InitLockout /\ [][NextLockout]_vars
    /\ WF_vars(LockoutTick) /\ WF_vars(LockoutAcquire)

----------------------------------------------------------------------------
(* Client.GetMessages *)

\* the page size of Discord and its default
filterLimit == 100
filterDefault == 50

\* the channels explored: the messages 1 .. n, a snowflake per message
ChannelSizes == { 0, 3, 120, 250 }
\* the filters the callers pass
FilterLimits == { 0, 100, 150, 250 }
Filters ==
    { [around |-> a, before |-> b, after |-> c, limit |-> l] :
        a \in { 0, 2 }, b \in { 0, 3 }, c \in { 0, 1 }, l \in FilterLimits }

\* GetMessagesParams.Validate: at most one of around, before, after is set
Validate(f) ==
    Cardinality({ k \in { "around", "before", "after" } : f[k] # 0 }) <= 1

\* the n largest and the n smallest elements of a set of snowflakes
Largest(S, n) == { x \in S : Cardinality({ y \in S : y > x }) < n }
Smallest(S, n) == { x \in S : Cardinality({ y \in S : y < x }) < n }
\* a set of messages as the server lists it, newest first
Desc(S) ==
    [i \in 1 .. Cardinality(S) |-> CHOOSE x \in S : Cardinality({ y \in S : y > x }) = i - 1]

\* getMessages: the page the server returns for the query string of filter f,
\* at most f.limit messages after, before or around the snowflake given, else
\* the newest ones
getMessages(chan, f) ==
    IF f.after # 0 THEN Desc(Smallest({ m \in chan : m > f.after }, f.limit))
    ELSE IF f.before # 0 THEN Desc(Largest({ m \in chan : m < f.before }, f.limit))
    ELSE IF f.around # 0
         THEN Desc(Largest({ m \in chan : m <= f.around }, f.limit \div 2 + 1)
                   \cup Smallest({ m \in chan : m > f.around }, f.limit \div 2))
    ELSE Desc(Largest(chan, f.limit))

\* the IDs of a page
IDs(page) == { page[i] : i \in 1 .. Len(page) }
\* the largest and the smallest of a set of uint64 snowflakes
UMax(S) == CHOOSE x \in S : \A y \in S : ~ULess(x, y)
UMin(S) == CHOOSE x \in S : \A y \in S : ~ULess(y, x)

\* latestSnowflake: the loop keeps every ID above the ID kept so far, starting
\* from the zero value of the named result
latestSnowflake(page) == UMax({ 0 } \cup IDs(page))

\* earliestSnowflake: the loop keeps every ID below the ID kept so far, starting
\* from the zero value of the named result
earliestSnowflake(page) == UMin({ 0 } \cup IDs(page))

\* the limit of the page the loop asks for
pageLimit(limit) == IF limit > filterLimit THEN filterLimit ELSE limit

\* the loop's filter.Limit -= f.Limit that subtracts nothing
limitLeft_Kept(limit, taken) == limit

\* the loop's filter.Limit -= f.Limit
limitLeft(limit, taken) == limit - taken

\* the filter after a page of the loop: After moves to the latest message when it
\* was set, else Before moves to the earliest
nextFilter(f, page, taken) ==
    IF f.after # 0
    THEN [f EXCEPT !.limit = limitLeft(@, taken), !.after = latestSnowflake(page)]
    ELSE [f EXCEPT !.limit = limitLeft(@, taken), !.before = earliestSnowflake(page)]

\* a call with this limit asks for one page or enters the loop
enter(limit) == IF limit <= filterLimit THEN "single" ELSE "loop"

\* the end of a call of GetMessages with Around unset: the outer call returns, or
\* the outer call that split an Around filter goes on with its second half and then
\* with the message itself
finish(g) ==
    CASE g.phase = "before" ->
            [g EXCEPT !.phase = "after",
                      !.filter = [NoFilter EXCEPT !.after = g.asked.around,
                                                  !.limit = g.asked.limit \div 2],
                      !.branch = g.asked.limit \div 2, !.pages = 0,
                      !.pc = enter(g.asked.limit \div 2)]
      [] g.phase = "after" -> [g EXCEPT !.pc = "message"]
      [] OTHER -> [g EXCEPT !.pc = "done"]

\* what a step of GetMessages leaves alone
pagingRest == <<clientVars, builderVars, normVars, threadVars, cp, msgs>>

\* GetMessages is called: Validate, the default limit, and the choice between one
\* page, the split of an Around filter and the loop
GetMessagesCall ==
    /\ gm.pc = "idle"
    /\ \E n \in ChannelSizes, f0 \in Filters :
       \E f \in { [f0 EXCEPT !.limit = IF @ = 0 THEN filterDefault ELSE @] } :
          gm' = IF ~Validate(f0)
                THEN [gm EXCEPT !.pc = "done", !.err = TRUE, !.asked = f0, !.chan = 1 .. n]
                ELSE IF f.limit > filterLimit /\ f.around # 0
                THEN [gm EXCEPT !.chan = 1 .. n, !.asked = f, !.phase = "before",
                                !.filter = [NoFilter EXCEPT !.before = f.around,
                                                            !.limit = f.limit \div 2],
                                !.branch = f.limit \div 2,
                                !.pc = enter(f.limit \div 2)]
                ELSE [gm EXCEPT !.chan = 1 .. n, !.asked = f, !.phase = "plain",
                                !.filter = f, !.branch = f.limit, !.pc = enter(f.limit)]
    /\ UNCHANGED pagingRest

\* a limit of at most 100: one call of getMessages
GetMessagesSingle ==
    /\ gm.pc = "single"
    /\ \E page \in { getMessages(gm.chan, gm.filter) } :
          gm' = finish([gm EXCEPT !.messages = @ \o page, !.pages = @ + 1])
    /\ UNCHANGED pagingRest

\* one turn of the loop: a page of at most 100, appended; the loop ends when
\* filter.Limit has reached 0
GetMessagesPage ==
    /\ gm.pc = "loop"
    /\ \E taken \in { pageLimit(gm.filter.limit) } :
       \E page \in { getMessages(gm.chan, [gm.filter EXCEPT !.limit = taken]) } :
       \E f \in { nextFilter(gm.filter, page, taken) } :
          gm' = IF f.limit <= 0
                THEN finish([gm EXCEPT !.messages = @ \o page, !.pages = @ + 1,
                                       !.filter = f])
                ELSE [gm EXCEPT !.messages = @ \o page, !.pages = @ + 1, !.filter = f]
    /\ UNCHANGED pagingRest

\* getMessages returns an error: GetMessages returns it
GetMessagesError ==
    /\ gm.pc \in { "single", "loop" }
    /\ gm' = [gm EXCEPT !.pc = "done", !.err = TRUE, !.messages = <<>>]
    /\ UNCHANGED pagingRest

\* GetMessage on the Around ID: the message is appended when it exists
GetMessageAround ==
    /\ gm.pc = "message"
    /\ gm' = [gm EXCEPT !.pc = "done",
                        !.messages = IF gm.asked.around \in gm.chan
                                     THEN Append(@, gm.asked.around) ELSE @]
    /\ UNCHANGED pagingRest

NextPaging ==
    \/ GetMessagesCall \/ GetMessagesSingle \/ GetMessagesPage \/ GetMessagesError
    \/ GetMessageAround

SpecPaging == Init /\ [][NextPaging]_vars

----------------------------------------------------------------------------
(* Message.CopyOverTo with constant.LockedMethods *)

\* RLock returns when no goroutine holds the write lock
canRLock(m) == m.writer = 0
\* Lock returns when no goroutine holds the write lock or a read lock
canLock(m) == m.writer = 0 /\ m.readers = {}

\* what a step of CopyOverTo leaves alone
copyRest == <<clientVars, builderVars, normVars, threadVars, gm>>

\* a.CopyOverTo(b) is called: the argument is a *Message
CopyOverTo ==
    /\ \E t \in Threads, a \in MessageIDs, b \in MessageIDs :
          /\ cp[t].pc = "start"
          /\ cp' = [cp EXCEPT ![t] = [pc |-> "rlock", src |-> a, dst |-> b]]
    /\ UNCHANGED <<msgs, copyRest>>

\* m.RLock()
CopyRLock ==
    /\ \E t \in Threads :
          /\ cp[t].pc = "rlock"
          /\ canRLock(msgs[cp[t].src])
          /\ msgs' = [msgs EXCEPT ![cp[t].src].readers = @ \cup { t }]
          /\ cp' = [cp EXCEPT ![t].pc = "lock"]
    /\ UNCHANGED copyRest

\* message.Lock()
CopyLock ==
    /\ \E t \in Threads :
          /\ cp[t].pc = "lock"
          /\ canLock(msgs[cp[t].dst])
          /\ msgs' = [msgs EXCEPT ![cp[t].dst].writer = t]
          /\ cp' = [cp EXCEPT ![t].pc = "copy"]
    /\ UNCHANGED copyRest

\* the fields are copied, then m.RUnlock() and message.Unlock()
CopyFields ==
    /\ \E t \in Threads :
          /\ cp[t].pc = "copy"
          /\ msgs' = [m \in MessageIDs |->
                        [content |-> IF m = cp[t].dst THEN msgs[cp[t].src].content
                                     ELSE msgs[m].content,
                         readers |-> IF m = cp[t].src THEN msgs[m].readers \ { t }
                                     ELSE msgs[m].readers,
                         writer |-> IF m = cp[t].dst THEN 0 ELSE msgs[m].writer]]
          /\ cp' = [cp EXCEPT ![t].pc = "done"]
    /\ UNCHANGED copyRest

NextCopy == CopyOverTo \/ CopyRLock \/ CopyLock \/ CopyFields

SpecCopy == Init /\ [][NextCopy]_vars

----------------------------------------------------------------------------
(* What a step did, read off the state before and after it *)

\* the step is Do's Acquire
IsAcquire == started' = started + 1
\* the step is Do's RegretAcquire
IsRegret == Len(flights') < Len(flights) /\ last'.op = "regret"
\* the step is Do's UpdateBucket
IsUpdate == Len(flights') < Len(flights) /\ last'.op = "update"

\* the local bucket an Acquire step ran on, as it was when Acquire was entered
LocalBefore == IF last'.b <= Len(heap) THEN heap[last'.b]
               ELSE [heap'[last'.b] EXCEPT !.remaining = 1, !.limit = 1, !.longestTimeout = 0,
                                           !.reset = TAdd(now, Ms(HourMs))]
\* the step ends a Do that had acquired
IsReturn == Len(flights') < Len(flights)
\* the step ends a Do whose response arrived
IsAnswered == IsReturn /\ last'.resp.status # 0
\* the step ends the Do whose Acquire was the step before, with no other Do in
\* flight, and that Acquire did not refresh the window
Alone == /\ last.op = "acquire" /\ ~last.err /\ Len(flights) = 1
         /\ last.id = last'.id /\ last.b = last'.b
         /\ ~last.pre.refreshed /\ last.pre.reset = last.id.reset
\* the status is one Do takes for a success
Success(status) == status = StatusNotModified \/ (200 <= status /\ status < 300)

\* the bucket a step charged (the global one for target 0), before and after
Before == IF last'.tgt = 0 THEN global
          ELSE IF IsAcquire THEN LocalBefore ELSE heap[last'.tgt]
After == IF last'.tgt = 0 THEN global' ELSE heap'[last'.tgt]


----------------------------------------------------------------------------
(* Claims *)

\* C1 (as claimed): in every window of every bucket, the Acquires granted at once
\* (rateLimited = false) minus the regrets that took effect never exceed the
\* bucket's limit.
C1_PermitConservation ==
    \A i \in 1 .. Len(heap) : ~ULess(heap[i].limit, granted[i])

\* C2 (as claimed): an Acquire that returns rateLimited = false and no error found
\* the bucket with remaining > 0 and reset > now, or refreshed it (longestTimeout > 0
\* and reset <= now on entry).
C2_NoRequestUnderLimit ==
    [][(IsAcquire /\ ~last'.rateLimited /\ ~last'.err)
        => \/ (Before.remaining # 0 /\ TAfter(Before.reset, now))
           \/ (Before.longestTimeout # 0 /\ ~TAfter(Before.reset, now))]_vars

\* C3 (as claimed): an Acquire on a bucket that is rate-limited at now, with
\* within > 0 and reset before now + within, returns rateLimited = true, no error
\* and delay = reset - now.
C3_WithinDelay ==
    [][(/\ IsAcquire
        /\ TAfter(Before.reset, now) /\ Before.remaining = 0
        /\ TAfter(last'.within, Ms(0))
        /\ TBefore(Before.reset, TAdd(now, last'.within)))
        => (last'.rateLimited /\ ~last'.err /\ last'.delay = TSub(Before.reset, now))]_vars

\* C4: an Acquire on a bucket that is rate-limited at now, with within <= 0 or
\* reset not before now + within, returns delay 0, rateLimited = true and
\* ErrRateLimited, and leaves remaining and reset as they were.
C4_Refusal ==
    [][(/\ IsAcquire
        /\ TAfter(Before.reset, now) /\ Before.remaining = 0
        /\ \/ ~TAfter(last'.within, Ms(0))
           \/ ~TBefore(Before.reset, TAdd(now, last'.within)))
        => (/\ last'.delay = Ms(0) /\ last'.rateLimited /\ last'.err
            /\ After.remaining = Before.remaining
            /\ After.reset = Before.reset)]_vars

\* C4 witness: within = 200ms, reset = now + 400ms, remaining = 0, and the Acquire
\* just made was refused
C4_Witness ==
    /\ last.op = "acquire" /\ last.err /\ last.rateLimited
    /\ last.within = Ms(200)
    /\ heap[last.b].remaining = 0
    /\ heap[last.b].reset = TAdd(now, Ms(400))

\* C5 (as claimed): once UpdateBucket has processed X-RateLimit-Global = true the
\* global bucket is active.
C5_GlobalActivation == globalSeen => global.active

\* C6: an Acquire that finds the global bucket active returns a bucketID with
\* global = true carrying the global bucket's reset, charges the global bucket only
\* and leaves the local bucket as it was; a refusal changes neither bucket.
C6_GlobalSupremacy ==
    [][(IsAcquire /\ global.active)
        => (/\ last'.id.global /\ last'.tgt = 0
            /\ last'.id.reset = global'.reset
            /\ heap'[last'.b] = LocalBefore
            /\ (last'.err => global' = global)
            /\ (~last'.err /\ global.longestTimeout = 0
                    => global'.remaining = global.remaining - 1))]_vars

\* C6 witness: the global bucket is active and granted the Acquire just made; the
\* local bucket still has its permit
C6_Witness ==
    /\ global.active /\ last.op = "acquire" /\ ~last.err /\ last.id.global
    /\ global.remaining = 0
    /\ heap[last.b].remaining = 1

\* C7: RegretAcquire(id) adds exactly one to remaining of the bucket the id names
\* (the global bucket for a global id, else the local one) when id.reset is that
\* bucket's reset, changes nothing when the reset differs, and never touches the
\* other bucket.
C7_Regret ==
    [][IsRegret
        => (/\ last'.tgt = (IF last'.id.global THEN 0 ELSE last'.b)
            /\ (last'.id.reset = Before.reset
                    => After = [Before EXCEPT !.remaining = @ + 1])
            /\ (last'.id.reset # Before.reset => After = Before)
            /\ (IF last'.tgt = 0 THEN heap' = heap ELSE global' = global))]_vars

\* C7 witness: a bucketID was issued in a window opened by a refresh, a later
\* Acquire (still in flight) refreshed the bucket again, and the regret of the
\* stale bucketID did not raise remaining
C7_Witness ==
    /\ last.op = "regret" /\ ~last.id.global
    /\ heap[last.b].longestTimeout # 0
    /\ last.id.reset # heap[last.b].reset
    /\ last.id.reset # TAdd(Start, Ms(HourMs))
    /\ \E k \in 1 .. Len(flights) : flights[k].id.reset = heap[last.b].reset
    /\ heap[last.b].remaining = 0

\* C8 (as claimed): with no request between its Acquire and a possible regret,
\* every bucket has remaining <= limit.
C8_RemainingWithinLimit ==
    flights = <<>> =>
        /\ ~ULess(global.limit, global.remaining)
        /\ \A i \in 1 .. Len(heap) : ~ULess(heap[i].limit, heap[i].remaining)

C10_ResetFromHeader ==
    [][(IsUpdate /\ last'.hdr.reset >= 0)
        => After.reset = TAdd(Ms(last'.hdr.reset),
                              IF last'.hdr.dateOk THEN TSub(now, last'.hdr.date) ELSE Ms(0))]_vars

\* C11: an UpdateBucket whose header has X-RateLimit-Global = true changes at most
\* reset, remaining, limit, key and longestTimeout of the global bucket and no
\* local bucket; any other UpdateBucket changes at most those fields of the
\* looked-up local bucket and leaves the global bucket and the other buckets alone.
C11_TargetSelection ==
    [][IsUpdate
        => IF last'.hdr.global
           THEN /\ heap' = heap
                /\ global' = [global EXCEPT !.reset = global'.reset,
                                            !.remaining = global'.remaining,
                                            !.limit = global'.limit,
                                            !.key = global'.key,
                                            !.longestTimeout = global'.longestTimeout]
           ELSE /\ global' = global
                /\ \A i \in 1 .. Len(heap) :
                      heap'[i] = IF i # last'.b THEN heap[i]
                                 ELSE [heap[i] EXCEPT !.reset = heap'[i].reset,
                                                      !.remaining = heap'[i].remaining,
                                                      !.limit = heap'[i].limit,
                                                      !.key = heap'[i].key,
                                                      !.longestTimeout = heap'[i].longestTimeout]]_vars

\* C11 witness: the update of a 429 with global = true moved the global bucket's
\* reset while the local bucket of the request still is as Acquire left it
C11_Witness ==
    /\ last.op = "update" /\ last.hdr.global /\ last.tgt = 0
    /\ global.reset # TAdd(Start, Ms(HourMs))
    /\ heap[last.b].reset = TAdd(Start, Ms(HourMs))
    /\ heap[last.b].key = "" /\ heap[last.b].longestTimeout = 0

\* C12 (as claimed): after a response with limit 5, remaining 4 and a reset later
\* than now was applied to a route's bucket, the next Do on the route finds the
\* same bucket (populated), and its Acquire before that reset returns delay 0,
\* rateLimited = false, no error and leaves remaining = 3.
C12_ColdRoute ==
    [][(/\ IsAcquire
        /\ last.op = "update" /\ ~last.hdr.global
        /\ last.hdr.limit = 5 /\ last.hdr.remaining = 4
        /\ last.hdr.reset > now.ms
        /\ last'.b = last.b)
        => (/\ Len(heap') = Len(heap)
            /\ last'.delay = Ms(0) /\ ~last'.rateLimited /\ ~last'.err
            /\ heap'[last'.b].remaining = 3)]_vars

\* the route a bucket was made for
RouteOf(i) == CHOOSE tr \in Routes : tr.key = heap[i].localKeys[1]
Has(seq, x) == \E n \in 1 .. Len(seq) : seq[n] = x

\* C13: when the buckets made for two local keys of one (class, majorID) were both
\* given the same serverKey by the response of the Do that made them (and that Do
\* called Consolidate), a lookup by either local key returns one and the same of
\* the two buckets, its localKeys has both keys, the other bucket is routed by no
\* triple, and one more Consolidate of either bucket changes nothing.
C13_Consolidation ==
    \A i, j \in 1 .. Len(heap) :
        (/\ i # j
         /\ learned[i] \in ServerKeys /\ learned[j] = learned[i]
         /\ RouteOf(i).class = RouteOf(j).class /\ RouteOf(i).major = RouteOf(j).major)
        => LET c == group[RouteOf(i)]
               slot == <<RouteOf(i).class, RouteOf(i).major>>
               same == [heap |-> heap, group |-> group, keys |-> byKey]
           IN /\ c \in {i, j}
              /\ group[RouteOf(j)] = c
              /\ Has(heap[c].localKeys, RouteOf(i).key)
              /\ Has(heap[c].localKeys, RouteOf(j).key)
              /\ \A tr \in Routes : group[tr] # i + j - c
              /\ consolidate(heap, group, byKey, slot, i) = same
              /\ consolidate(heap, group, byKey, slot, j) = same

\* C13 witness: both routes were answered with the bucket name "xyz"; one bucket
\* was dropped from the routing, the other has its local key, and a third Do ran
\* on the kept bucket
C13_Witness ==
    /\ Len(heap) = 2 /\ learned = <<"xyz", "xyz">>
    /\ last.op = "acquire" /\ started = 3
    /\ \E i \in 1 .. 2 :
          /\ last.b # i /\ group[RouteOf(i)] = last.b
          /\ Has(heap[last.b].localKeys, RouteOf(i).key)
          /\ \A tr \in Routes : group[tr] # i

\* C14: when Acquire returns ErrRateLimited, Do returns that error, has sent no
\* request and has changed neither the bucket, the global bucket nor the routing
\* (no UpdateBucket, no Consolidate); no request of it is in flight.
C14_RefusalReturns ==
    [][(IsAcquire /\ last'.err)
        => (/\ last'.out.done /\ last'.out.err = "ErrRateLimited"
            /\ last'.out.sent = 0 /\ ~last'.out.resp
            /\ flights' = flights
            /\ heap'[last'.b] = LocalBefore
            /\ \A i \in 1 .. Len(heap) : heap'[i] = heap[i]
            /\ global' = global /\ byKey' = byKey /\ globalSeen' = globalSeen
            /\ \A tr \in Routes : group[tr] # 0 => group'[tr] = group[tr])]_vars

\* C14 witness: a second Do was refused while the first one is in flight
C14_Witness ==
    /\ last.op = "acquire" /\ last.err /\ last.out.err = "ErrRateLimited"
    /\ started = 2 /\ Len(flights) = 1 /\ flights[1].b = last.b

\* C15: when the round trip fails, Do returns the transport error after one send,
\* having called RegretAcquire with the bucketID of its own Acquire; when nothing
\* else touched the bucket and the window is the one of the Acquire, remaining is
\* what it was before Do.
C15_TransportRegret ==
    [][(IsRegret /\ last'.out.err = "transport")
        => (/\ last'.out.done /\ last'.out.sent = 1 /\ ~last'.out.resp
            /\ \E k \in 1 .. Len(flights) :
                  /\ flights' = Remove(flights, k)
                  /\ last'.id = flights[k].id /\ last'.b = flights[k].b
            /\ (Alone => After.remaining = last.pre.remaining))]_vars

\* C15 witness: the only Do made so far failed in the round trip and the seed
\* bucket has its permit back
C15_Witness ==
    /\ last.op = "regret" /\ last.out.err = "transport"
    /\ started = 1 /\ flights = <<>>
    /\ heap[last.b].remaining = 1 /\ last.pre.remaining = 1

\* C16 (as claimed): when Do has acquired and returns an error before it sent the
\* request, the permit is given back: with nothing else touching the bucket and
\* the window being the one of the Acquire, remaining is what it was before Do.
C16_RefundBeforeSend ==
    [][(IsReturn /\ last'.out.err # "" /\ last'.out.sent = 0 /\ Alone)
        => After.remaining = last.pre.remaining]_vars

\* C17: a Do that ends has called httpClient.Do at most once, whatever the status
\* of the answer and whatever the outcome of the round trip, and has not acquired
\* again.
C17_NoRetries ==
    [][IsReturn
        => (/\ last'.out.done /\ last'.out.sent <= 1
            /\ started' = started
            /\ Len(flights') = Len(flights) - 1)]_vars

\* C17 witness: Do returned the error of a 500 after one send
C17_Witness ==
    /\ last.op = "update" /\ last.resp.status = 500
    /\ last.out.err = "ErrREST" /\ last.out.sent = 1

C19_Classification ==
    [][IsAnswered
        => LET r == last'.resp
               o == last'.out
           IN IF Success(r.status)
              THEN o.err = "" /\ o.resp /\ o.body = r.body
              ELSE /\ o.err = "ErrREST" /\ o.httpCode = r.status
                   /\ ~o.resp /\ o.body = NoBody
                   /\ (r.body.kind = "json"
                          => o.code = r.body.code /\ o.message = r.body.message)]_vars

\* C20 (as claimed): a response with a missing or unparsable date, reset,
\* reset-after or retry-after header (and, for a 429, a JSON body) is never
\* rejected by CorrectDiscordHeader: UpdateBucket runs and Do's result is decided
\* by the status alone.
C20_MalformedTolerated ==
    [][(IsAnswered
        /\ (last'.resp.status = 429 => decodeResponseBody(last'.resp).kind = "json"))
        => (/\ last'.op = "update"
            /\ last'.out.err = (IF Success(last'.resp.status) THEN "" ELSE "ErrREST"))]_vars

\* C21 (as claimed): when reading or decompressing the response body fails, Do
\* returns that error: no response, no body, and the error of decodeResponseBody.
C21_DecodeErrorReturned ==
    [][(IsAnswered /\ ~last'.resp.decodeOk)
        => (/\ last'.out.err = "decodeResponseBody"
            /\ ~last'.out.resp /\ last'.out.body = NoBody)]_vars

\* C22 (as claimed): the Do of a builder's Execute calls Acquire with within =
\* 200 ms when CancelOnRatelimit was called on the builder and with the HTTP
\* client's timeout otherwise; with CancelOnRatelimit it fails with ErrRateLimited
\* or sleeps at most 200 ms.
C22_PatienceBudget ==
    [][(IsAcquire /\ builder.state = "Configuring")
        => (/\ last'.within = (IF builder.cancel THEN Ms(200) ELSE timeout)
            /\ builder.cancel => (last'.err \/ ~TAfter(last'.delay, Ms(200))))]_vars

\* a header text that is absent or an integer
Integral(x) == x.kind = "absent" \/ (x.kind = "num" /\ ~x.dot)
\* a and b differ by at most one
Within1(a, b) == a - b <= 1 /\ b - a <= 1

\* C23 (as claimed): for every combination of forms of reset, reset-after and
\* retry-after and of a 429 body's retry_after, CorrectDiscordHeader returns a
\* header whose X-RateLimit-Reset and X-RateLimit-Reset-After are integers, the
\* latter being the window's remaining milliseconds, and when both are present
\* reset = date + reset-after within 1 ms.
C23_CanonicalForm ==
    norm.status # 0
    => /\ ~norm.err
       /\ Integral(norm.h.reset) /\ Integral(norm.h.resetAfter)
       /\ norm.h.resetAfter.kind = "num" => Within1(norm.h.resetAfter.int, norm.after)
       /\ (norm.h.reset.kind = "num" /\ norm.h.resetAfter.kind = "num")
            => Within1(norm.h.reset.int, norm.t.ms + norm.h.resetAfter.int)

\* the reset-after value the steps before the synthesis leave, as the claim
\* describes them: Retry-After, else the 429 body's retry_after when positive,
\* else X-RateLimit-Reset-After in milliseconds
ResetAfterClaimed ==
    IF norm.header.retryAfter.kind # "absent" THEN norm.header.retryAfter
    ELSE IF norm.status = StatusTooManyRequests /\ norm.body.retry_after > 0
         THEN FormatInt(norm.body.retry_after)
    ELSE IF norm.header.resetAfter.kind # "absent"
         THEN FormatInt(Times1000(norm.header.resetAfter))
    ELSE NoText

IsExecute == builder.state = "Configuring" /\ builder'.state # "Configuring"

\* C25: a builder that is being configured carries no error; when Execute is
\* called and a precondition of the builder is true, Execute returns the message
\* of the first true one in insertion order and the client is untouched (no
\* Acquire, no request); when none is true Client.Do is called.
C25_Preconditions ==
    [][/\ builder'.state = "Configuring" => builder'.err = ""
       /\ IsExecute
            => IF \E i \in 1 .. Len(builder.prereqs) : builder.prereqs[i].cond
               THEN /\ \E i \in 1 .. Len(builder.prereqs) :
                          /\ builder.prereqs[i].cond
                          /\ \A j \in 1 .. i - 1 : ~builder.prereqs[j].cond
                          /\ builder'.err = builder.prereqs[i].msg
                    /\ builder'.state = "Done" /\ ~builder'.v /\ builder'.sends = 0
                    /\ UNCHANGED clientVars
               ELSE IsAcquire /\ builder'.sends = 1]_vars

\* C25 witness: UpdateMessage(0, 0).Execute() returned the message about the
\* channel, the first of two true preconditions, and no Do was started
C25_Witness ==
    /\ builder.state = "Done" /\ Len(builder.prereqs) = 2
    /\ builder.prereqs[1].cond /\ builder.prereqs[2].cond
    /\ builder.err = "channelID must be set to get channel messages"
    /\ started = 0 /\ flights = <<>>

\* C26 (as claimed): a builder moves only Configuring -> Executing -> Done, and
\* once Execute has been called nothing configures it and no further Do is started
\* for it.
C26_OneWay ==
    [][/\ builder.state = "Executing" => builder'.state \in {"Executing", "Done"}
       /\ builder.state = "Done" => builder'.state = "Done"
       /\ builder.state \in {"Executing", "Done"}
            => /\ builder'.body = builder.body /\ builder'.cancel = builder.cancel
               /\ builder'.prereqs = builder.prereqs
               /\ builder'.sends = builder.sends /\ started' = started]_vars

\* the mutexes goroutine t holds, and the one its position in Do requires
heldBy(t) == { x \in Targets : mu[x] = t }
lockOf(r) ==
    CASE r.pc = "globalHeld" -> { 0 }
      [] r.pc = "localHeld" -> { r.b }
      [] r.pc = "regretHeld" -> { regretTarget(r) }
      [] r.pc = "updateHeld" -> { updateTarget(r) }
      [] OTHER -> {}

\* C27: in every interleaving of Acquire, RegretAcquire and UpdateBucket a
\* goroutine holds exactly the one mutex of the critical section it is in (the
\* global one before the local one, never two at once) and none once the call
\* has returned, early returns included; and while some goroutine has not
\* finished, some goroutine can take a step.
C27_DeadlockFree ==
    /\ \A t \in Threads : heldBy(t) = lockOf(thr[t]) /\ Cardinality(heldBy(t)) <= 1
    /\ \A x \in Targets : mu[x] # 0 => x \in lockOf(thr[mu[x]])
    /\ (\E t \in Threads : thr[t].pc # "done") => ENABLED NextThreads

\* a goroutine waits for the mutex that an UpdateBucket on its early-return path
\* (unparsable X-RateLimit-Remaining) holds
C27_Witness ==
    \E t \in Threads, u \in Threads :
        /\ thr[t].pc = "updateHeld"
        /\ earlyReturn(thr[t].hdr)
        /\ thr[u].pc \in { "local", "regret", "update" }
        /\ mu[updateTarget(thr[t])] = t
        /\ (IF thr[u].pc = "local" THEN thr[u].b
            ELSE IF thr[u].pc = "regret" THEN regretTarget(thr[u])
            ELSE updateTarget(thr[u])) = updateTarget(thr[t])

\* the goroutines whose Acquire on bucket b has returned, and whether the bucket
\* is still as those calls left it (no RegretAcquire or UpdateBucket on it ended)
returned(b) == { t \in Threads : thr[t].b = b
                                 /\ thr[t].pc \notin { "start", "globalHeld", "local",
                                                       "localHeld" } }
untouched(b) == \A t \in returned(b) : thr[t].pc = "done" => thr[t].err
Min(a, b) == IF a <= b THEN a ELSE b

\* C28: of the N concurrent Acquire calls that have returned on one bucket that
\* held k permits, at one now before its reset, with within = 0 and an inactive
\* global bucket, exactly min(N, k) returned rateLimited = false and the others
\* returned ErrRateLimited, whatever the interleaving.
C28_Serialized ==
    \A b \in 1 .. Len(heap) :
        (timeout = Ms(0) /\ ~cancelRequestWhenRateLimited /\ ~global.active /\ untouched(b))
        => LET won == { t \in returned(b) : thr[t].granted }
           IN /\ Cardinality(won) = Min(Cardinality(returned(b)), heap[b].limit)
              /\ \A t \in returned(b) \ won : thr[t].err
              /\ \A t \in won : ~thr[t].err

\* every goroutine called Acquire on bucket 1, which held one permit: one call
\* was granted and the others were refused
C28_Witness ==
    /\ timeout = Ms(0)
    /\ heap[1].limit = 1
    /\ untouched(1)
    /\ returned(1) = Threads
    /\ Cardinality({ t \in Threads : thr[t].granted }) = 1
    /\ \E t \in Threads : thr[t].pc = "done" /\ thr[t].err

\* C29: every read or write of a bucket's fields by Acquire, RegretAcquire and
\* UpdateBucket is made by a goroutine that holds that bucket's mutex, also
\* when UpdateBucket writes the global bucket.
C29_OwnMutex == \A t \in Threads : ~thr[t].bare

\* C30: in every interleaving of concurrent Do calls on one Client, a request
\* that went out carried the content type of its own descriptor, never that of
\* another request.
C30_OwnContentType ==
    \A t \in Threads : thr[t].wire # "" => thr[t].wire = contentType(t)

\* C31 (as claimed): a bucket made by Manager.Bucket has limit 1 and a reset one
\* hour after a time that has been now, and until its first UpdateBucket the Acquires granted on it
\* minus the permits RegretAcquire gave back never exceed one.
C31_ColdGate ==
    \A i \in 1 .. Len(heap) :
        /\ heap[i].limit = 1
        /\ \E t \in Times : ~TAfter(t, now) /\ heap[i].reset = TAdd(t, Ms(HourMs))
        /\ granted[i] <= 1

\* C32 (as claimed): an Acquire at now on a bucket with longestTimeout > 0 and
\* reset <= now leaves reset = now + longestTimeout ms, which is after now, and
\* grants the one probe (remaining 0, rateLimited = false, no error); an Acquire
\* on a bucket with longestTimeout = 0 or reset > now leaves reset as it was.
C32_Refresh ==
    [][IsAcquire =>
         IF Before.longestTimeout # 0 /\ ~TAfter(Before.reset, now)
         THEN /\ After.reset = TAdd(now, Ms(Before.longestTimeout))
              /\ TAfter(After.reset, now)
              /\ After.remaining = 0
              /\ ~last'.rateLimited /\ ~last'.err
         ELSE After.reset = Before.reset]_vars

\* C33 (as claimed): an UpdateBucket that moves the target bucket's reset to an
\* earlier instant leaves its longestTimeout as it was, and no UpdateBucket
\* lowers longestTimeout.
C33_LongestTimeout ==
    [][IsUpdate =>
         /\ TBefore(After.reset, Before.reset)
              => After.longestTimeout = Before.longestTimeout
         /\ ~ULess(After.longestTimeout, Before.longestTimeout)]_vars

\* C34 (as claimed): when the last bucket operation was an Acquire that reserved a
\* permit through the within branch (rateLimited = true, no error), a further
\* Acquire on the same bucket at a time before its reset is still reported
\* rateLimited = true, and remaining has not wrapped below zero.
C34_ReservationKeepsLimit ==
    [][(/\ IsAcquire
        /\ last.op = "acquire" /\ last.rateLimited /\ ~last.err
        /\ last'.tgt = last.tgt
        /\ TAfter(Before.reset, now))
        => (last'.rateLimited /\ Before.remaining >= 0)]_vars

\* C35 (as claimed): the goroutines whose Manager.Bucket call for one triple has
\* returned all hold the same bucket, and at most one of them was answered
\* populated = false.
C35_AtomicLookup ==
    \A t \in Threads, u \in Threads :
        (thr[t].pc = "found" /\ thr[u].pc = "found" /\ thr[t].key = thr[u].key /\ t # u)
        => (thr[t].b = thr[u].b /\ (thr[t].ok \/ thr[u].ok))

\* C36: when a Do whose Acquire succeeded without refreshing the window (at once
\* or through the within branch, charged to the local or to the global bucket)
\* calls RegretAcquire with its bucketID directly after, remaining, reset and
\* limit of the charged bucket are again what they were before the Acquire.
C36_RoundTrip ==
    [][(IsRegret /\ Alone)
        => (/\ After.remaining = last.pre.remaining
            /\ After.reset = last.pre.reset
            /\ After.limit = last.pre.limit)]_vars

\* a permit reserved through the within branch on an exhausted bucket was given
\* back, and the bucket is exhausted as before
C36_Witness ==
    /\ last.op = "regret" /\ last.rateLimited /\ ~last.err
    /\ Len(flights) = 0
    /\ ~last.pre.refreshed /\ last.pre.reset = last.id.reset
    /\ last.pre.remaining = 0
    /\ bucketAt(heap, global, last.tgt).remaining = 0
    /\ bucketAt(heap, global, last.tgt).reset = last.pre.reset

\* C37: when time keeps advancing and the callers keep calling, and no
\* UpdateBucket moves reset into the future, an Acquire that was reported
\* rateLimited is followed by a later Acquire that is granted with
\* rateLimited = false.
C37_NoLockout ==
    (last.op = "acquire" /\ last.rateLimited)
        ~> (last.op = "acquire" /\ ~last.rateLimited /\ ~last.err)

\* the bucket was exhausted by a request whose response set no reset, its reset
\* has passed, and an Acquire on it was granted
C37_Witness ==
    /\ last.op = "acquire" /\ ~last.rateLimited /\ ~last.err
    /\ last.pre.remaining = 0
    /\ heap[1].longestTimeout = 0
    /\ ~TAfter(last.pre.reset, now)

\* C38 (as claimed): in a call of GetMessages with Limit > 100 and Around unset,
\* the pages fetched so far are disjoint: no message occurs twice in the result.
C38_DisjointPages ==
    (gm.phase = "plain" /\ gm.asked.limit > filterLimit /\ ~gm.err)
        => \A i \in 1 .. Len(gm.messages), j \in 1 .. Len(gm.messages) :
              gm.messages[i] = gm.messages[j] => i = j

\* the page requests of one call with Around unset and limit l
pagesOf(l) == (l + filterLimit - 1) \div filterLimit
\* the steps a call of GetMessages may still take: the page requests of the call
\* under way and, for a split Around filter, the second half and the GetMessage
stepsLeft(g) ==
    CASE g.pc = "done" -> 0
      [] g.pc = "idle" -> 2 * pagesOf(UMax(FilterLimits)) + 2
      [] g.pc = "message" -> 1
      [] OTHER -> (IF g.pc = "single" THEN 1 ELSE pagesOf(g.filter.limit))
                  + (IF g.phase = "before" THEN pagesOf(g.asked.limit \div 2) + 1
                     ELSE IF g.phase = "after" THEN 1 ELSE 0)

\* C39: every call of GetMessages returns after a bounded number of steps: the
\* number of requests it may still make falls with every step and a call that has
\* not returned is at a position whose step can be taken; a call with Around unset (and
\* each half of a call that splits an Around filter) makes at most
\* ceil(Limit/100) page requests, and the Limit left never falls below zero.
C39_Terminates ==
    /\ [](/\ gm.pages <= pagesOf(gm.branch)
          /\ gm.filter.limit >= 0
          /\ stepsLeft(gm) >= 0
          /\ gm.pc \in { "idle", "single", "loop", "message", "done" })
    /\ [][stepsLeft(gm') < stepsLeft(gm)]_vars

\* a call with Around set and Limit 250 on a channel of three messages has
\* returned: both halves looped twice with pages that were not full
C39_Witness ==
    /\ gm.pc = "done" /\ ~gm.err
    /\ gm.asked.around # 0 /\ gm.asked.limit = 250
    /\ Cardinality(gm.chan) = 3
    /\ gm.phase = "after" /\ gm.pages = 2

\* the goroutines inside a call of CopyOverTo, and those of them whose next
\* statement can run
copying == { t \in Threads : cp[t].pc \in { "rlock", "lock", "copy" } }
runnable == { t \in copying : \/ cp[t].pc = "copy"
                              \/ cp[t].pc = "rlock" /\ canRLock(msgs[cp[t].src])
                              \/ cp[t].pc = "lock" /\ canLock(msgs[cp[t].dst]) }

\* C40 (as claimed): with locked methods enabled, whenever calls of CopyOverTo
\* are under way, at least one of them can go on, so every call returns; and a
\* call that has returned holds neither its source's read lock nor its target's
\* write lock.
C40_NoDeadlock ==
    /\ copying # {} => runnable # {}
    /\ \A t \in Threads : cp[t].pc \in { "start", "done" }
          => \A m \in MessageIDs : t \notin msgs[m].readers /\ msgs[m].writer # t
====
